---- MODULE Spec2Model ----
(***************************************************************************)
(* Model of the pick -> label -> ship workflow of the picking server       *)
(* (src/server.js) and of the scripts it calls                             *)
(* (src/scripts/postnl-create-labels.js, src/scripts/bol-picking-list.js,  *)
(* src/scripts/bol-fetch-orders.js), and of the price advisor and the     *)
(* price update run of src/scripts/bol-update-prices.js.                   *)
(*                                                                         *)
(* Every request handler is one action: the server is driven by a single   *)
(* operator through a request/response UI, so a handler runs to its        *)
(* response before the next request is handled.  The remote parties (the   *)
(* marketplace and the carrier) and the file system are the inputs of the  *)
(* actions, drawn with \E from the outcomes the code distinguishes.        *)
(* The pick handler is followed a second time await by await, with other   *)
(* requests served while it is suspended (SideBySideSpec).                 *)
(***************************************************************************)
EXTENDS Integers, Sequences, FiniteSets, TLC

(***************************************************************************)
(* Bounds of the model.                                                    *)
(***************************************************************************)
\* number of label requests the carrier answers (with HTTP 200) in one behaviour
MaxLabels == 2

(***************************************************************************)
(* JavaScript values.                                                      *)
(***************************************************************************)
\* undefined / null of a string-valued field
Undefined == "undefined"
\* null of the label file name
NoFile == <<>>
\* !v for a string-valued field
Falsy(v) == v \in {Undefined, ""}

\* the barcode the carrier issues with its n-th answer (3S + 13 characters + NL)
Barcode(n) == "3S" \o ToString(n) \o "NL"
\* `MSG_${Date.now()}_${random}`: the message id of the request of the n-th answer
MessageId(n) == "MSG_" \o ToString(n)

(***************************************************************************)
(* The marketplace's data: the open orders it can list and their lines.    *)
(***************************************************************************)
OrderIds == {"o1", "o2"}

BolOrderItems ==
  [o \in OrderIds |->
     IF o = "o1"
     THEN << [orderItemId |-> "i1", ean |-> "9781"],
             [orderItemId |-> "i2", ean |-> "9782"] >>
     ELSE << [orderItemId |-> "i3", ean |-> "9783"],
             [orderItemId |-> "9783", ean |-> "9784"] >>]

\* the listings GET /retailer/orders?status=OPEN can answer: no order twice
OrderLists ==
  { <<>>, <<"o1">>, <<"o2">>, <<"o1", "o2">>, <<"o2", "o1">> }

\* what reading one order's details gives: its lines, nothing (the request
\* failed and fetchOrderDetails returned null), or lines that make the loop throw
DetailOutcomes == {"ok", "null", "throw"}

(***************************************************************************)
(* process.env                                                             *)
(***************************************************************************)
requiredPostNLVars ==
  { "API_KEY", "API_URL", "CUSTOMER_CODE", "CUSTOMER_NUMBER", "COLLECTION_LOCATION",
    "SENDER_NAME", "SENDER_EMAIL", "COMPANY_NAME", "COMPANY_STREET", "COMPANY_HOUSENR",
    "COMPANY_ZIP", "COMPANY_CITY", "COMPANY_COUNTRY" }

EnvVars == requiredPostNLVars \cup {"CLIENT_ID", "CLIENT_SECRET"}

\* a variable is "real", a "placeholder" (holds 'your_...') or "missing"
AllReal == [v \in EnvVars |-> "real"]

\* the environments the process can be started in
Envs ==
  { AllReal,
    [AllReal EXCEPT !["API_KEY"] = "missing"],
    [AllReal EXCEPT !["COMPANY_CITY"] = "missing"],
    [AllReal EXCEPT !["CUSTOMER_CODE"] = "placeholder"],
    [AllReal EXCEPT !["CLIENT_SECRET"] = "missing"] }

VARIABLES
  env,                 \* process.env, fixed when the process starts
  currentPickingList,  \* server.js: let currentPickingList
  currentOrders,       \* server.js: let currentOrders, as the ids of the orders
  labelFiles,          \* the files of uploads/labels
  answered,            \* carrier: the number of label requests it has answered
  last,                \* the last request served: its response and remote calls
  e2e,                 \* position in the scenario fetch, pick A, pick B, ship
  myPrice,             \* advisePrice: the price of my offer, in cents
  myCond,              \* advisePrice: the condition of my offer
  competitors,         \* advisePrice: the lowest competitor price per condition
  advised,             \* what the call advisePrice(myPrice, myCond, competitors) gave
  currentProgress,     \* bol-update-prices.js: let currentProgress
  pc,                  \* updatePrices: the await the run is suspended at
  filteredOffers,      \* updatePrices: const filteredOffers
  results,             \* updatePrices: const results
  resultsShared,       \* currentProgress.results is the array results
  pending,             \* updatePrices: const pending, as positions of results
  pcOther,             \* a second call of updatePrices: the await it is suspended at
  pagesPc,             \* fetchAllOrders: the await the call is suspended at
  page,                \* fetchAllOrders: let page
  allOrders,           \* fetchAllOrders: let allOrders, as the number of pages it holds
  token,               \* bol-fetch-orders.js: let token, as against const accessToken
  offersPc,            \* fetchOffers: the await the call is suspended at
  attempt,             \* fetchOffers: let attempt
  sessions,            \* server.js: let sessions, session id -> time it was created
  now,                 \* Date.now(), in units of four hours
  issued,              \* the number of session ids POST /api/login has made
  logins,              \* history: session id -> time of its successful login
  revoked,             \* history: the ids logged out or found expired
  lineItem,            \* an order line as the marketplace gives it
  locations,           \* the locations generated for lineItem, one per generation
  picking              \* the pick requests being served, each at an await of its handler

serverVars == <<env, currentPickingList, currentOrders, labelFiles, answered, last, e2e>>
adviseVars == <<myPrice, myCond, competitors, advised>>
updateVars == <<currentProgress, pc, filteredOffers, results, resultsShared, pending>>
overlapVars == <<pcOther>>
pagesVars == <<pagesPc, page, allOrders, token>>
offersVars == <<offersPc, attempt>>
authVars == <<sessions, now, issued, logins, revoked>>
locationVars == <<lineItem, locations>>
pickVars == <<picking>>
vars == <<serverVars, adviseVars, updateVars, overlapVars, pagesVars, offersVars, authVars,
          locationVars, pickVars>>

\* the variables a part of the program leaves alone
notServerVars == <<adviseVars, updateVars, overlapVars, pagesVars, offersVars, authVars, locationVars, pickVars>>
notAdviseVars == <<serverVars, updateVars, overlapVars, pagesVars, offersVars, authVars, locationVars, pickVars>>
notUpdateVars == <<serverVars, adviseVars, overlapVars, pagesVars, offersVars, authVars, locationVars, pickVars>>
notOverlapVars == <<serverVars, adviseVars, pagesVars, offersVars, authVars, locationVars, pickVars>>
notPagesVars == <<serverVars, adviseVars, updateVars, overlapVars, offersVars, authVars, locationVars, pickVars>>
notOffersVars == <<serverVars, adviseVars, updateVars, overlapVars, pagesVars, authVars, locationVars, pickVars>>
notLocationVars ==
  <<serverVars, adviseVars, updateVars, overlapVars, pagesVars, offersVars, authVars, pickVars>>
\* (a pick request at its awaits writes the server's variables too)
notPickVars ==
  <<adviseVars, updateVars, overlapVars, pagesVars, offersVars, authVars, locationVars>>
notServerAuthVars == <<adviseVars, updateVars, overlapVars, pagesVars, offersVars, locationVars, pickVars>>

(***************************************************************************)
(* Picking List Builder (scripts/bol-picking-list.js)                      *)
(***************************************************************************)
\* the picking entry generatePickingList builds for one order line
PickingEntry(orderId, item) ==
  [ MessageID      |-> orderId,
    OrderItemID    |-> item.orderItemId,
    EAN            |-> item.ean,
    picked         |-> FALSE,
    productCode    |-> Undefined,
    trackingNumber |-> Undefined,
    labelFilename  |-> NoFile,
    shipped        |-> FALSE ]

\* the entry pushed when processing an order throws
ErrorEntry(orderId) ==
  [ MessageID      |-> orderId,
    OrderItemID    |-> "",
    EAN            |-> "",
    picked         |-> FALSE,
    productCode    |-> Undefined,
    trackingNumber |-> Undefined,
    labelFilename  |-> NoFile,
    shipped        |-> FALSE ]

\* the entries of one order: for (const item of orderDetails.orderItems) push
OrderEntries(orderId, detail) ==
  IF detail = "null" THEN <<>>
  ELSE IF detail = "throw" THEN << ErrorEntry(orderId) >>
  ELSE [k \in 1..Len(BolOrderItems[orderId]) |->
          PickingEntry(orderId, BolOrderItems[orderId][k])]

RECURSIVE PickingLoop(_, _, _)
\* for (const order of orders) { ... }, from the k-th order on
PickingLoop(orders, details, k) ==
  IF k > Len(orders) THEN <<>>
  ELSE OrderEntries(orders[k], details[orders[k]]) \o PickingLoop(orders, details, k + 1)

\* generatePickingList(): listing is the answer of fetchOrdersForPicking
\* ([ok |-> FALSE] when it throws), details the answer of each fetchOrderDetails
generatePickingList(listing, details) ==
  IF ~listing.ok THEN [success |-> FALSE, pickingList |-> <<>>]
  ELSE IF Len(listing.orders) = 0 THEN [success |-> TRUE, pickingList |-> <<>>]
  ELSE [success |-> TRUE, pickingList |-> PickingLoop(listing.orders, details, 1)]

\* fetchOrders(): listing is the answer of fetchAllOrders
fetchOrders(e, listing) ==
  IF e["CLIENT_ID"] = "missing" \/ e["CLIENT_SECRET"] = "missing" \/ ~listing.ok
  THEN [success |-> FALSE, ordersData |-> <<>>]
  ELSE [success |-> TRUE, ordersData |-> listing.orders]

\* the answers of a listing request
Listings == {[ok |-> FALSE, orders |-> <<>>]} \cup {[ok |-> TRUE, orders |-> l] : l \in OrderLists}

(***************************************************************************)
(* Carrier client and label store (scripts/postnl-create-labels.js)        *)
(***************************************************************************)
\* what the carrier does with a label request: "error" is a failed request
\* (HTTP error, timeout, 401); the others are HTTP 200 with all of, or only
\* a part of, the label response
CarrierKinds == {"error", "full", "noBarcode", "noContent", "empty"}
WithBarcode == {"full", "noContent"}
WithContent == {"full", "noBarcode"}

\* response.data of a request the carrier answered with HTTP 200
ResponseData(kind, barcode) ==
  [ ResponseShipments |->
      IF kind = "empty" THEN <<>>
      ELSE << [ Barcode |-> IF kind \in WithBarcode THEN barcode ELSE "",
                Labels  |-> IF kind \in WithContent
                            THEN << [Content |-> "JVBERi0="] >> ELSE <<>> ] >> ]

\* validatePostNLConfig(): TRUE when it does not throw
validatePostNLConfig(e) ==
  \A f \in {"API_KEY", "CUSTOMER_NUMBER", "CUSTOMER_CODE", "COLLECTION_LOCATION"} :
     e[f] = "real"

\* createPostNLLabel(): the result object of an answered request
createPostNLLabel(shipmentData, data) ==
  [ data         |-> data,
    trackingCode |-> IF Len(data.ResponseShipments) > 0
                        /\ ~Falsy(data.ResponseShipments[1].Barcode)
                     THEN data.ResponseShipments[1].Barcode
                     ELSE shipmentData.messageId,
    messageId    |-> shipmentData.messageId,
    success      |-> TRUE ]

\* the name saveLabelPDF gives the file: `${trackingCode}.pdf`
LabelFileName(trackingCode) == <<trackingCode, ".pdf">>

\* saveLabelPDF(): the file name written (path.basename of the path it
\* returns), NoFile when it returns null.  A write that fails is caught and
\* gives null as well, like a response without content.
saveLabelPDF(labelData, trackingCode) ==
  IF Len(labelData.ResponseShipments) = 0 THEN NoFile
  ELSE IF Len(labelData.ResponseShipments[1].Labels) = 0 THEN NoFile
  ELSE IF Falsy(labelData.ResponseShipments[1].Labels[1].Content) THEN NoFile
  ELSE LabelFileName(trackingCode)

\* the shipment data createLabels prepares for a shipment
ShipmentData(shipment, messageId) ==
  [ messageId   |-> messageId,
    productCode |-> IF Falsy(shipment.productCode) THEN "3085" ELSE shipment.productCode,
    reference   |-> shipment.orderId ]

\* one turn of createLabels' loop: the label info or the error info pushed
LabelOf(shipment, out) ==
  LET shipmentData == ShipmentData(shipment, out.messageId)
      result       == createPostNLLabel(shipmentData, ResponseData(out.kind, out.barcode))
  IN IF Falsy(shipment.orderId) \/ out.kind = "error"
     THEN [ status |-> "failed", orderItemId |-> shipment.orderItemId,
            trackAndTrace |-> Undefined, labelFilename |-> NoFile,
            productCode |-> Undefined ]
     ELSE [ status |-> "created", orderItemId |-> shipment.orderItemId,
            trackAndTrace |-> result.trackingCode,
            labelFilename |-> saveLabelPDF(result.data, result.trackingCode),
            productCode |-> shipmentData.productCode ]

\* CarrierRequests with every label request sent a second time
CarrierRequestsRetried(shipments) == 2 * Len(shipments)

\* the label requests createLabels sends: one createPostNLLabel(shipmentData),
\* itself one axios request, per turn of its loop
CarrierRequests(shipments) == Len(shipments)

\* createLabels(shipments): outs[k] is what the carrier does for the k-th shipment
createLabels(e, shipments, outs) ==
  IF ~validatePostNLConfig(e)
  THEN [success |-> FALSE, labels |-> <<>>, calls |-> 0]
  ELSE IF Len(shipments) = 0
  THEN [success |-> FALSE, labels |-> <<>>, calls |-> 0]
  ELSE LET labels == [k \in 1..Len(shipments) |-> LabelOf(shipments[k], outs[k])]
           successCount == Cardinality({k \in 1..Len(labels) : labels[k].status = "created"})
       IN [success |-> successCount > 0, labels |-> labels, calls |-> CarrierRequests(shipments)]

(***************************************************************************)
(* Marketplace shipment registration (createShipments)                     *)
(***************************************************************************)
\* generatePostNLTrackingCode(): a code made up when an item brings none
GeneratedTrackingCode == "3SGENERATEDNL"

\* ShipmentCall making up a tracking code for every item
ShipmentCallAlwaysGenerated(orderItem, ok) ==
  [ orderItemId   |-> orderItem.orderItemId,
    trackAndTrace |-> GeneratedTrackingCode,
    ok            |-> ok ]

\* one turn of createShipments' loop: the request sent for an order item and
\* whether the marketplace accepted it
ShipmentCall(orderItem, ok) ==
  [ orderItemId   |-> orderItem.orderItemId,
    trackAndTrace |-> IF Falsy(orderItem.trackAndTrace)
                      THEN GeneratedTrackingCode ELSE orderItem.trackAndTrace,
    ok            |-> ok ]

\* createShipments(orderItems): tokenOk is the answer of getAccessToken,
\* oks[k] that of the k-th POST /retailer/shipments
createShipments(e, orderItems, tokenOk, oks) ==
  IF e["CLIENT_ID"] = "missing" \/ e["CLIENT_SECRET"] = "missing"
  THEN [success |-> FALSE, auth |-> FALSE, calls |-> <<>>]
  ELSE IF ~tokenOk
  THEN [success |-> FALSE, auth |-> TRUE, calls |-> <<>>]
  ELSE LET calls == [k \in 1..Len(orderItems) |-> ShipmentCall(orderItems[k], oks[k])]
           successCount == Cardinality({k \in 1..Len(calls) : calls[k].ok})
       IN [success |-> successCount > 0, auth |-> TRUE, calls |-> calls]

(***************************************************************************)
(* The server's handlers (server.js)                                       *)
(***************************************************************************)
\* the response of a request and the remote calls made while serving it
\* (orderId: the order of a ship request; target: the position in the picking
\* list of the item a pick request found, 0 when it found none; carrier: what
\* the carrier did, "none" when it was not called; bolAuth: the marketplace
\* was asked for an access token; bolCalls: the shipment registrations sent
\* to the marketplace; carrierCalls: the label requests sent to the carrier;
\* forwarded: the product code of the label request)
Response(op, status, orderId, target, carrier, bolAuth, bolCalls) ==
  [ op |-> op, status |-> status, orderId |-> orderId, target |-> target,
    carrier |-> carrier, bolAuth |-> bolAuth, bolCalls |-> bolCalls,
    carrierCalls |-> 0, forwarded |-> Undefined ]

\* the response of a pick request that went to the carrier
PickResponse(status, target, kind, labelResult, shipmentData) ==
  [ Response("pick", status, "", target, kind, FALSE, <<>>)
      EXCEPT !.carrierCalls = labelResult.calls,
             !.forwarded = shipmentData.productCode ]

\* the positions of the items of an order: currentPickingList.filter(...)
OrderItemsOf(list, orderId) == {k \in 1..Len(list) : list[k].MessageID = orderId}

\* a set of positions as the sequence filter() returns
RECURSIVE InOrder(_)
InOrder(S) ==
  IF S = {} THEN <<>>
  ELSE LET m == CHOOSE x \in S : \A y \in S : x <= y
       IN <<m>> \o InOrder(S \ {m})

\* currentPickingList.find(...) of the pick handler: the position of the
\* first item of the order with this OrderItemID or this EAN, 0 when none
FindItem(list, orderId, itemId) ==
  LET hits == {k \in 1..Len(list) :
                 /\ list[k].MessageID = orderId
                 /\ (list[k].OrderItemID = itemId \/ list[k].EAN = itemId)}
  IN IF hits = {} THEN 0 ELSE CHOOSE k \in hits : \A j \in hits : k <= j

\* missingVars that finds nothing missing
missingVarsNone(e) == {}

\* the pick handler's missingVars: the required variables process.env lacks
missingVars(e) == {v \in requiredPostNLVars : e[v] = "missing"}

\* LabelAccepted without the test of labelResult.success
LabelAcceptedAnyLabels(labelResult) ==
  ~(Len(labelResult.labels) = 0)

\* the pick handler goes on to mark the item
LabelAccepted(labelResult) ==
  ~(~labelResult.success \/ Len(labelResult.labels) = 0)

\* the assignments of the pick handler to the item
MarkPicked(item, productCode, label) ==
  [item EXCEPT !.picked = TRUE,
               !.productCode = productCode,
               !.trackingNumber = label.trackAndTrace,
               !.labelFilename = label.labelFilename]

\* the position reached in the scenario by a pick
E2EAfterPick(idx, productCode, kind) ==
  IF kind = "full" /\ e2e = 1 /\ idx = 1 /\ productCode = "3085" THEN 2
  ELSE IF kind = "full" /\ e2e = 2 /\ idx = 2 /\ productCode = "2928" THEN 3
  ELSE 0

\* POST /api/orders/:orderId/items/:itemId/pick
Pick(orderId, itemId, body, kind) ==
  LET productCode == IF body = Undefined THEN "3085" ELSE body
      idx         == FindItem(currentPickingList, orderId, itemId)
      item        == currentPickingList[idx]
      shipmentData == << [ orderId     |-> orderId \o "_" \o itemId,
                           orderItemId |-> itemId,
                           productCode |-> productCode ] >>
      out         == [ kind |-> kind, barcode |-> Barcode(answered + 1),
                       messageId |-> MessageId(answered + 1) ]
      labelResult == createLabels(env, shipmentData, <<out>>)
      sent        == ShipmentData(shipmentData[1], out.messageId)
      called      == labelResult.calls > 0
      label       == labelResult.labels[1]
      written     == {l \in {labelResult.labels[k].labelFilename :
                                   k \in 1..Len(labelResult.labels)} : l # NoFile}
      quiet       == kind = "error"
  IN /\ kind # "error" => answered < MaxLabels
     /\ IF missingVars(env) # {}
        THEN /\ quiet
             /\ last' = Response("pick", 400, "", 0, "none", FALSE, <<>>)
             /\ e2e' = 0
             /\ UNCHANGED <<currentPickingList, labelFiles, answered>>
        ELSE IF idx = 0
        THEN /\ quiet
             /\ last' = Response("pick", 404, "", 0, "none", FALSE, <<>>)
             /\ e2e' = 0
             /\ UNCHANGED <<currentPickingList, labelFiles, answered>>
        ELSE IF ~called
        THEN /\ quiet
             /\ last' = Response("pick", 500, "", idx, "none", FALSE, <<>>)
             /\ e2e' = 0
             /\ UNCHANGED <<currentPickingList, labelFiles, answered>>
        ELSE /\ labelFiles' = labelFiles \cup written
             /\ answered' = IF kind # "error" THEN answered + 1 ELSE answered
             /\ IF ~LabelAccepted(labelResult)
                THEN /\ last' = PickResponse(500, idx, kind, labelResult, sent)
                     /\ e2e' = 0
                     /\ UNCHANGED currentPickingList
                ELSE /\ currentPickingList' =
                          [currentPickingList EXCEPT ![idx] = MarkPicked(item, productCode, label)]
                     /\ last' = PickResponse(200, idx, kind, labelResult, sent)
                     /\ e2e' = E2EAfterPick(idx, productCode, kind)
     /\ UNCHANGED <<env, currentOrders>>
     /\ UNCHANGED notServerVars

\* OrdersStored with the assignment of currentOrders ahead of the test of
\* result.success
OrdersStoredAlways(result, orders) == result.ordersData

\* currentOrders after the fetch-orders handler has read the result of
\* fetchOrders(): if (result.success) currentOrders = result.ordersData || []
OrdersStored(result, orders) ==
  IF result.success THEN result.ordersData ELSE orders

\* POST /api/fetch-orders: listing and pickListing are the marketplace's answers
\* to the order listing of fetchOrders and of generatePickingList
FetchOrdersServed(listing, pickListing, details) ==
  LET result        == fetchOrders(env, listing)
      pickingResult == generatePickingList(pickListing, details)
      newList       == IF pickingResult.success
                       THEN pickingResult.pickingList ELSE currentPickingList
  IN /\ IF env["CLIENT_ID"] = "missing" \/ env["CLIENT_SECRET"] = "missing"
        THEN /\ last' = Response("fetch", 400, "", 0, "none", FALSE, <<>>)
             /\ e2e' = 0
             /\ UNCHANGED <<currentOrders, currentPickingList>>
        ELSE IF ~result.success
        THEN /\ currentOrders' = OrdersStored(result, currentOrders)
             /\ last' = Response("fetch", 500, "", 0, "none", TRUE, <<>>)
             /\ e2e' = 0
             /\ UNCHANGED currentPickingList
        ELSE /\ currentOrders' = OrdersStored(result, currentOrders)
             /\ currentPickingList' = newList
             /\ last' = Response("fetch", 200, "", 0, "none", TRUE, <<>>)
             /\ e2e' = IF pickingResult.success /\ Len(newList) = 2
                          /\ newList[1].MessageID = newList[2].MessageID
                       THEN 1 ELSE 0
     /\ UNCHANGED <<env, labelFiles, answered>>

\* POST /api/fetch-orders while no other request is being served
FetchOrders(listing, pickListing, details) ==
  /\ FetchOrdersServed(listing, pickListing, details)
  /\ UNCHANGED notServerVars

\* ShipPrecondition refusing an order only when none of its items is picked or
\* labelled
ShipPreconditionNoneOnly(list, orderItems) ==
  LET unpickedItems      == {k \in orderItems : ~list[k].picked}
      itemsWithoutLabels == {k \in orderItems : Falsy(list[k].trackingNumber)}
  IN IF Cardinality(unpickedItems) = Cardinality(orderItems) THEN "unpicked"
     ELSE IF Cardinality(itemsWithoutLabels) = Cardinality(orderItems) THEN "nolabels"
     ELSE "ok"

\* the unpicked-items and missing-label checks of the ship handler
ShipPrecondition(list, orderItems) ==
  LET unpickedItems      == {k \in orderItems : ~list[k].picked}
      itemsWithoutLabels == {k \in orderItems : Falsy(list[k].trackingNumber)}
  IN IF Cardinality(unpickedItems) > 0 THEN "unpicked"
     ELSE IF Cardinality(itemsWithoutLabels) > 0 THEN "nolabels"
     ELSE "ok"

\* BolOrderItemsOf giving every item the tracking number of the order's first item
BolOrderItemsOfOneTracking(list, orderItems) ==
  LET ks == InOrder(orderItems)
  IN [n \in 1..Len(ks) |-> [ orderItemId   |-> list[ks[n]].OrderItemID,
                             trackAndTrace |-> list[ks[1]].trackingNumber ]]

\* the order items handed to createShipments
BolOrderItemsOf(list, orderItems) ==
  LET ks == InOrder(orderItems)
  IN [n \in 1..Len(ks) |-> [ orderItemId   |-> list[ks[n]].OrderItemID,
                             trackAndTrace |-> list[ks[n]].trackingNumber ]]

\* POST /api/orders/:orderId/ship
Ship(orderId, tokenOk, oks) ==
  LET orderItems     == OrderItemsOf(currentPickingList, orderId)
      bolOrderItems  == BolOrderItemsOf(currentPickingList, orderItems)
      shipmentResult == createShipments(env, bolOrderItems, tokenOk, oks)
      quiet          == tokenOk /\ \A k \in DOMAIN oks : oks[k]
  IN /\ DOMAIN oks = 1..Cardinality(orderItems)
     /\ ~tokenOk => \A k \in DOMAIN oks : oks[k]
     /\ IF env["CLIENT_ID"] = "missing" \/ env["CLIENT_SECRET"] = "missing"
        THEN /\ quiet
             /\ last' = Response("ship", 400, orderId, 0, "none", FALSE, <<>>)
             /\ e2e' = 0
             /\ UNCHANGED currentPickingList
        ELSE IF Cardinality(orderItems) = 0
        THEN /\ quiet
             /\ last' = Response("ship", 404, orderId, 0, "none", FALSE, <<>>)
             /\ e2e' = 0
             /\ UNCHANGED currentPickingList
        ELSE IF ShipPrecondition(currentPickingList, orderItems) # "ok"
        THEN /\ quiet
             /\ last' = Response("ship", 400, orderId, 0, "none", FALSE, <<>>)
             /\ e2e' = 0
             /\ UNCHANGED currentPickingList
        ELSE IF shipmentResult.success
        THEN /\ currentPickingList' =
                  [k \in 1..Len(currentPickingList) |->
                     IF k \in orderItems
                     THEN [currentPickingList[k] EXCEPT !.shipped = TRUE]
                     ELSE currentPickingList[k]]
             /\ last' = Response("ship", 200, orderId, 0, "none", shipmentResult.auth, shipmentResult.calls)
             /\ e2e' = IF e2e = 3 /\ \A k \in DOMAIN oks : oks[k] THEN 4 ELSE 0
        ELSE /\ last' = Response("ship", 500, orderId, 0, "none", shipmentResult.auth, shipmentResult.calls)
             /\ e2e' = 0
             /\ UNCHANGED currentPickingList
     /\ UNCHANGED <<env, currentOrders, labelFiles, answered>>
     /\ UNCHANGED notServerVars

(***************************************************************************)
(* GET /api/orders: the picking list as orders                             *)
(***************************************************************************)
\* `item_${Date.now()}_${Math.random()}`: the id given to an item without one
RandomItemId == "item_random"

\* the item pushed on order.items
ProjectedItem(item) ==
  [ id             |-> IF Falsy(item.OrderItemID) THEN RandomItemId ELSE item.OrderItemID,
    picked         |-> item.picked,
    productCode    |-> item.productCode,
    trackingNumber |-> item.trackingNumber,
    labelFilename  |-> item.labelFilename ]

\* the order put in the map when its first item is met
NewOrder(orderId) ==
  [ id |-> orderId, items |-> <<>>, status |-> "open", shipped |-> FALSE,
    trackingNumbers |-> <<>>, allItemsShipped |-> FALSE ]

\* PickingItemShipped looking the item up by its EAN
PickingItemShippedByEAN(list, orderId, id) ==
  LET hits == {k \in 1..Len(list) : list[k].MessageID = orderId /\ list[k].EAN = id}
  IN IF hits = {} THEN FALSE
     ELSE list[CHOOSE k \in hits : \A j \in hits : k <= j].shipped

\* currentPickingList.find(pi => pi.MessageID === orderId && pi.OrderItemID === id)
\* followed by pickingItem?.shipped || false
PickingItemShipped(list, orderId, id) ==
  LET hits == {k \in 1..Len(list) : list[k].MessageID = orderId /\ list[k].OrderItemID = id}
  IN IF hits = {} THEN FALSE
     ELSE list[CHOOSE k \in hits : \A j \in hits : k <= j].shipped

\* AddItem deriving the status from the item at hand alone when not all are picked
AddItemCurrentOnly(list, order, item) ==
  LET pushed    == [order EXCEPT !.items = Append(@, ProjectedItem(item))]
      n         == Len(pushed.items)
      allPicked == \A k \in 1..n : pushed.items[k].picked
      withStatus == [pushed EXCEPT !.status = IF allPicked /\ n > 0 THEN "ready"
                                              ELSE IF item.picked THEN "picking" ELSE @]
      allShipped == \A k \in 1..n :
                       PickingItemShipped(list, order.id, withStatus.items[k].id)
      known      == \E k \in 1..Len(withStatus.trackingNumbers) :
                       withStatus.trackingNumbers[k] = item.trackingNumber
  IN IF ~item.shipped THEN withStatus
     ELSE [withStatus EXCEPT
             !.allItemsShipped = allShipped,
             !.shipped = IF allShipped THEN TRUE ELSE @,
             !.status = IF allShipped THEN "shipped" ELSE @,
             !.trackingNumbers = IF ~Falsy(item.trackingNumber) /\ ~known
                                 THEN Append(@, item.trackingNumber) ELSE @]

\* the body of the forEach for one item, on its order
AddItem(list, order, item) ==
  LET pushed    == [order EXCEPT !.items = Append(@, ProjectedItem(item))]
      n         == Len(pushed.items)
      allPicked == \A k \in 1..n : pushed.items[k].picked
      somePicked == \E k \in 1..n : pushed.items[k].picked
      withStatus == [pushed EXCEPT !.status = IF allPicked /\ n > 0 THEN "ready"
                                              ELSE IF somePicked THEN "picking" ELSE @]
      allShipped == \A k \in 1..n :
                       PickingItemShipped(list, order.id, withStatus.items[k].id)
      known      == \E k \in 1..Len(withStatus.trackingNumbers) :
                       withStatus.trackingNumbers[k] = item.trackingNumber
  IN IF ~item.shipped THEN withStatus
     ELSE [withStatus EXCEPT
             !.allItemsShipped = allShipped,
             !.shipped = IF allShipped THEN TRUE ELSE @,
             !.status = IF allShipped THEN "shipped" ELSE @,
             !.trackingNumbers = IF ~Falsy(item.trackingNumber) /\ ~known
                                 THEN Append(@, item.trackingNumber) ELSE @]

\* the position of an order in the map, 0 when it is not there
OrderPos(orderMap, orderId) ==
  IF \E k \in 1..Len(orderMap) : orderMap[k].id = orderId
  THEN CHOOSE k \in 1..Len(orderMap) : orderMap[k].id = orderId
  ELSE 0

RECURSIVE OrdersLoop(_, _, _)
\* currentPickingList.forEach(...), from the k-th item on
OrdersLoop(list, k, orderMap) ==
  IF k > Len(list) THEN orderMap
  ELSE LET item  == list[k]
           have  == IF OrderPos(orderMap, item.MessageID) = 0
                    THEN Append(orderMap, NewOrder(item.MessageID)) ELSE orderMap
           pos   == OrderPos(have, item.MessageID)
       IN OrdersLoop(list, k + 1, [have EXCEPT ![pos] = AddItem(list, have[pos], item)])

\* the orders of the response
OrdersOf(list) == OrdersLoop(list, 1, <<>>)

\* GET /api/orders
GetOrders ==
  /\ last' = Response("orders", 200, "", 0, "none", FALSE, <<>>)
  /\ e2e' = 0
  /\ UNCHANGED <<env, currentPickingList, currentOrders, labelFiles, answered>>
  /\ UNCHANGED notServerVars

\* String.prototype.includes on names written as sequences of tokens: the
\* tokens of needle are found in a row in those of file.  (An order id, an
\* item id and a barcode are tokens of their own: none is part of another.)
Includes(file, needle) ==
  \E i \in 0..(Len(file) - Len(needle)) :
     SubSeq(file, i + 1, i + Len(needle)) = needle

\* String.prototype.endsWith
EndsWith(file, suffix) == Len(file) > 0 /\ file[Len(file)] = suffix

\* the label files the item download handler's files.find(...) can give
ItemLabelFiles(files, orderId, itemId, trackingCode) ==
  { file \in files :
      /\ Includes(file, <<orderId, "_", itemId>>)
      /\ Includes(file, <<trackingCode>>)
      /\ EndsWith(file, ".pdf") }

\* the download requests the front end makes: for an item of the picking
\* list that has a tracking number, with its order id, its id and that number
DownloadRequests ==
  { k \in 1..Len(currentPickingList) : ~Falsy(currentPickingList[k].trackingNumber) }

\* GET /api/labels/item/:orderId/:itemId/:trackingCode, asked for the item at
\* position k of the picking list
DownloadItemLabel(k) ==
  LET item  == currentPickingList[k]
      found == ItemLabelFiles(labelFiles, item.MessageID, item.OrderItemID,
                              item.trackingNumber)
  IN /\ last' = Response("download", IF found = {} THEN 404 ELSE 200,
                         "", k, "none", FALSE, <<>>)
     /\ e2e' = 0
     /\ UNCHANGED <<env, currentPickingList, currentOrders, labelFiles, answered>>
     /\ UNCHANGED notServerVars

(***************************************************************************)
(* Price advisor (scripts/bol-update-prices.js).  Prices are counted in    *)
(* cents; a JavaScript number that is not a whole number of cents is the   *)
(* fraction <<n, d>>, n / d cents.                                         *)
(***************************************************************************)
\* 'N/A', the value of a tier that has no competitor offer: a value that is
\* no price
NA == -1

\* the condition tiers, best first
CONDITIONS == <<"NEW", "AS_NEW", "GOOD", "REASONABLE", "MODERATE">>

\* CONDITIONS.indexOf(cond), counted from 1
IndexOf(cond) == CHOOSE i \in 1..Len(CONDITIONS) : CONDITIONS[i] = cond

\* the fallback price when there is no competition: 45.00
FallbackPrice == 4500

\* the minimum price: 7.50
MinPrice == 750

\* a / b <= c / d for a, c >= 0 and b, d > 0, without multiplying
RECURSIVE LessEq(_, _, _, _)
LessEq(a, b, c, d) ==
  LET qa == a \div b
      qc == c \div d
      ra == a % b
      rc == c % d
  IN IF qa # qc THEN qa < qc
     ELSE IF ra = 0 THEN TRUE
     ELSE IF rc = 0 THEN FALSE
     ELSE LessEq(d, rc, b, ra)

\* x <= y and x > y on fractions
Le(x, y) == LessEq(x[1], x[2], y[1], y[2])
Gt(x, y) == ~Le(x, y)

\* x ** k for small whole numbers
RECURSIVE Pow(_, _)
Pow(x, k) == IF k = 0 THEN 1 ELSE x * Pow(x, k - 1)

\* price * Math.pow(0.775, distance): 0.775 = 31 / 40
Discounted(price, distance) == <<price * Pow(31, distance), Pow(40, distance)>>

\* parseFloat(rec.toFixed(2)): rec to the nearest cent.  A value half-way
\* between two cents goes up or down with the binary representation of the
\* number: tieUp says which.
ToFixed2(rec, tieUp) ==
  LET q == rec[1] \div rec[2]
      r == rec[1] % rec[2]
  IN IF 2 * r > rec[2] THEN q + 1
     ELSE IF 2 * r = rec[2] THEN (IF tieUp THEN q + 1 ELSE q)
     ELSE q

\* Undercut that keeps the competitor's price
UndercutNone(theirs, price, cut) == theirs

\* competitors[c] === myPrice ? myPrice : competitors[c] - cut
Undercut(theirs, price, cut) == IF theirs = price THEN price ELSE theirs - cut

\* the candidates advisePrice collects in its switch (myCond)
Candidates(price, cond, comp) ==
  LET has(c) == comp[c] # NA
      own(c, cut) == [ val |-> <<Undercut(comp[c], price, cut), 1>>, desc |-> c ]
      times(c, n, d) == [ val |-> <<comp[c] * n, d>>, desc |-> c ]
  IN CASE cond = "AS_NEW" ->
            LET first == (IF has("AS_NEW") THEN <<own("AS_NEW", 5)>> ELSE <<>>)
                           \o (IF has("GOOD") THEN <<times("GOOD", 49, 40)>> ELSE <<>>)
                           \o (IF has("REASONABLE") THEN <<times("REASONABLE", 29, 20)>> ELSE <<>>)
            IN IF Len(first) = 0 /\ has("MODERATE")
               THEN <<times("MODERATE", 13, 8)>> ELSE first
       [] cond = "GOOD" ->
            IF has("GOOD") THEN <<own("GOOD", 5)>>
            ELSE IF has("REASONABLE") THEN <<times("REASONABLE", 49, 40)>>
            ELSE IF has("AS_NEW") THEN <<times("AS_NEW", 31, 40)>>
            ELSE IF has("MODERATE") THEN <<times("MODERATE", 29, 20)>>
            ELSE <<>>
       [] cond = "REASONABLE" ->
            IF has("REASONABLE") THEN <<own("REASONABLE", 5)>>
            ELSE IF has("GOOD") THEN <<times("GOOD", 31, 40)>>
            ELSE IF has("AS_NEW") THEN <<times("AS_NEW", 217, 400)>>
            ELSE IF has("MODERATE") THEN <<times("MODERATE", 49, 40)>>
            ELSE <<>>
       [] cond = "MODERATE" ->
            << [ val |-> IF has("MODERATE") THEN <<comp["MODERATE"] - 5, 1>> ELSE <<price, 1>>,
                 desc |-> "MODERATE" ] >>
       [] cond = "NEW" ->
            IF has("NEW") THEN <<own("NEW", 1)>> ELSE <<>>
       [] OTHER -> <<>>

\* candidates.reduce((a, b) => a.val <= b.val ? a : b) of a non-empty array
RECURSIVE Reduce(_, _)
Reduce(a, rest) ==
  IF Len(rest) = 0 THEN a
  ELSE Reduce(IF Le(a.val, rest[1].val) THEN a ELSE rest[1], Tail(rest))

\* the better tiers that have data, as positions of CONDITIONS
BetterWithData(cond, comp) ==
  {j \in 1..(IndexOf(cond) - 1) : comp[CONDITIONS[j]] # NA}

\* the tiers the enforcing loop of advisePrice compares with: it stops (break)
\* at the first better tier with data, going up from my own
NearestBetter(cond, comp) ==
  LET up == BetterWithData(cond, comp)
  IN IF up = {} THEN {} ELSE {CHOOSE j \in up : \A i \in up : i <= j}

\* rec after the enforcing loop
RECURSIVE Enforce(_, _, _, _)
Enforce(rec, cond, comp, tiers) ==
  IF tiers = {} THEN rec
  ELSE LET j == CHOOSE x \in tiers : \A y \in tiers : y <= x
           threshold == Discounted(comp[CONDITIONS[j]], IndexOf(cond) - j)
       IN Enforce(IF Gt(rec, threshold) THEN threshold ELSE rec,
                  cond, comp, tiers \ {j})

\* MinFloorNone instead of MinFloor: no minimum
MinFloorNone(rec) == rec

\* the minimum price: rec < 7.5 gives 7.5
MinFloor(rec) == IF ~Le(<<MinPrice, 1>>, rec) THEN <<MinPrice, 1>> ELSE rec

\* the result of a call that has not been made, and of one that threw
NotCalled == [status |-> "none", price |-> 0, explanation |-> <<>>]
Thrown == [status |-> "thrown", price |-> 0, explanation |-> <<>>]

\* NoCompetition that never holds
NoCompetitionNever(comp) == FALSE

\* !Object.values(competitors).some(v => v !== 'N/A')
NoCompetition(comp) == \A c \in DOMAIN comp : comp[c] = NA

\* advisePrice(myPrice, myCond, competitors)
advisePrice(price, cond, comp, tieUp) ==
  LET candidates == Candidates(price, cond, comp)
      chosen     == Reduce(candidates[1], Tail(candidates))
      enforced   == Enforce(chosen.val, cond, comp, NearestBetter(cond, comp))
      floored    == MinFloor(enforced)
      rec        == ToFixed2(floored, tieUp)
  IN IF NoCompetition(comp)
     THEN [ status |-> "returned", price |-> FallbackPrice,
            explanation |-> <<"fallback">> ]
     ELSE IF Len(candidates) = 0
     THEN Thrown
     ELSE [ status |-> "returned", price |-> rec,
            explanation |-> <<chosen.desc>>
               \o (IF enforced # chosen.val THEN <<"enforce">> ELSE <<>>)
               \o (IF floored # enforced THEN <<"ondergrens">> ELSE <<>>)
               \o <<"afrond">> ]

\* the prices of the offers, in cents
OwnPrices == {0, 900, 1000}
CompetitorPrices == {500, 900, 1500, 2000}

\* the maps lowestPerCondition can give
CompetitorMaps ==
  [ {CONDITIONS[i] : i \in 1..Len(CONDITIONS)} -> CompetitorPrices \cup {NA} ]

\* one call of advisePrice on the inputs drawn
Advise(tieUp) ==
  /\ advised.status = "none"
  /\ advised' = advisePrice(myPrice, myCond, competitors, tieUp)
  /\ UNCHANGED <<myPrice, myCond, competitors>>
  /\ UNCHANGED notAdviseVars

(***************************************************************************)
(* Price update run (scripts/bol-update-prices.js, updatePrices).  One      *)
(* action is the code between two awaits: the progress query getProgress() *)
(* can read currentProgress between any two actions.  Runs are started one *)
(* after the other, and resetProgress() is called between runs.            *)
(***************************************************************************)
\* number of offers of an export after filterOffers
MaxOffers == 2

\* the progress record of resetProgress() and of the module's start
IdleProgress ==
  [ stage |-> "idle", isRunning |-> FALSE, totalItems |-> 0, processedItems |-> 0,
    successCount |-> 0, errorCount |-> 0, endTime |-> FALSE ]

\* the progress record updatePrices writes when it starts ('starting'),
\* followed at once by updateProgress('exporting', ...)
StartingProgress ==
  [ stage |-> "exporting", isRunning |-> TRUE, totalItems |-> 0, processedItems |-> 0,
    successCount |-> 0, errorCount |-> 0, endTime |-> FALSE ]

\* updateProgress(stage, message, progress)
updateProgress(progress, stage) == [progress EXCEPT !.stage = stage]

\* the catch of updatePrices: updateProgress('error', ..., {isRunning: false, endTime})
Failed(progress) ==
  [progress EXCEPT !.stage = "error", !.isRunning = FALSE, !.endTime = TRUE]

\* the offers of an export, after filterOffers
Offers == { [price |-> 1000, cond |-> "GOOD"], [price |-> 900, cond |-> "NEW"] }
OfferLists == UNION { [1..n -> Offers] : n \in 0..MaxOffers }

\* a competitor map with data at one tier only
OnlyAt(cond, price) ==
  [c \in {CONDITIONS[i] : i \in 1..Len(CONDITIONS)} |-> IF c = cond THEN price ELSE NA]

\* what fetchOffers(ean) and lowestPerCondition give for an offer: "fail" when
\* the request fails for good, else the competitor map
Fetched ==
  { "fail", "none", "good900", "good1000", "moderate900", "new902" }
FetchedMap(f) ==
  CASE f = "none" -> OnlyAt("NEW", NA)
    [] f = "good900" -> OnlyAt("GOOD", 900)
    [] f = "good1000" -> OnlyAt("GOOD", 1000)
    [] f = "moderate900" -> OnlyAt("MODERATE", 900)
    [] f = "new902" -> OnlyAt("NEW", 902)

\* Math.abs(a - b) >= 0.01 in double arithmetic for two prices one cent apart,
\* for the prices of Offers: 9.01 - 9, 9 - 8.99, 10.01 - 10 and 10 - 9.99 are
\* all 0.009999999999999787, which is below 0.01
OneCentApart ==
  [ p \in {<<899, 900>>, <<901, 900>>, <<999, 1000>>, <<1001, 1000>>} |-> "below" ]

\* Math.abs(advisedPrice - offer.bundlePricesPrice) >= 0.01, the prices being
\* doubles: two cents apart or more the test holds, one cent apart it goes
\* with the rounding of the subtraction
PriceDiffers(advisedPrice, price) ==
  LET cents == IF advisedPrice >= price THEN advisedPrice - price ELSE price - advisedPrice
  IN IF cents = 1 THEN OneCentApart[<<advisedPrice, price>>] = "atLeast"
     ELSE cents >= 2

\* CaughtPerOffer that lets a failed price update through to the outer catch
CaughtPerOfferNotUpdate(failure) == failure # "update"

\* the try of the loop body encloses the fetch of the competitors, the call
\* of advisePrice and the price update
CaughtPerOffer(failure) == failure \in {"fetch", "advise", "update"}

\* the body of the loop for one offer: the result pushed, or the failure
OfferOutcome(offer, fetched, updateOk, tieUp) ==
  LET advice == advisePrice(offer.price, offer.cond, FetchedMap(fetched), tieUp)
  IN IF fetched = "fail" THEN [failure |-> "fetch", status |-> "error", newPrice |-> 0]
     ELSE IF advice.status = "thrown"
     THEN [failure |-> "advise", status |-> "error", newPrice |-> 0]
     ELSE IF ~PriceDiffers(advice.price, offer.price)
     THEN [failure |-> "no", status |-> "no_change", newPrice |-> advice.price]
     ELSE IF ~updateOk
     THEN [failure |-> "update", status |-> "error", newPrice |-> 0]
     ELSE [failure |-> "no", status |-> "updating", newPrice |-> advice.price]

\* the stage written at the head of the loop body
CalculatingStageBack == "exporting"

CalculatingStage == "calculating"

\* from the head of the loop with i offers done to the next await: the next
\* offer's fetch, the poll of the updates, or the report
Continue(progress, offers, done) ==
  IF Len(done) < Len(offers)
  THEN [ progress |-> updateProgress([progress EXCEPT !.processedItems = Len(done) + 1],
                                     CalculatingStage),
         pc |-> "fetchOffers", pending |-> {} ]
  ELSE LET open == {k \in 1..Len(done) : done[k].status = "updating"}
       IN IF open # {}
          THEN [ progress |-> updateProgress(progress, "finalizing"),
                 pc |-> "pollUpdates", pending |-> open ]
          ELSE [ progress |-> updateProgress(progress, "reporting"),
                 pc |-> "generateReport", pending |-> {} ]

\* updatePrices() up to its first await
UpdatePricesStart ==
  /\ pc = "idle"
  /\ IF env["CLIENT_ID"] = "missing" \/ env["CLIENT_SECRET"] = "missing"
     THEN /\ currentProgress' = Failed(currentProgress)
          /\ UNCHANGED <<pc, filteredOffers, results, resultsShared, pending>>
     ELSE /\ currentProgress' = StartingProgress
          /\ pc' = "requestExport"
          /\ filteredOffers' = <<>>
          /\ results' = <<>>
          /\ resultsShared' = FALSE
          /\ pending' = {}
  /\ UNCHANGED notUpdateVars

\* requestExport() returns or throws
RequestExportDone(ok) ==
  /\ pc = "requestExport"
  /\ IF ok
     THEN /\ currentProgress' = updateProgress(currentProgress, "exporting")
          /\ pc' = "pollExportStatus"
     ELSE /\ currentProgress' = Failed(currentProgress)
          /\ pc' = "idle"
  /\ UNCHANGED <<filteredOffers, results, resultsShared, pending>>
  /\ UNCHANGED notUpdateVars

\* a round of pollExportStatus(): the status is neither SUCCESS nor FAILURE
PollExportPending ==
  /\ pc = "pollExportStatus"
  /\ pc' = "exportDelay"
  /\ UNCHANGED <<currentProgress, filteredOffers, results, resultsShared, pending>>
  /\ UNCHANGED notUpdateVars

\* await delay(5000) of pollExportStatus() is over: while (true) goes round
ExportDelayDone ==
  /\ pc = "exportDelay"
  /\ pc' = "pollExportStatus"
  /\ UNCHANGED <<currentProgress, filteredOffers, results, resultsShared, pending>>
  /\ UNCHANGED notUpdateVars

\* pollExportStatus() returns the report id (status SUCCESS) or throws
\* (status FAILURE, or getToken or the request failed)
PollExportDone(ok) ==
  /\ pc = "pollExportStatus"
  /\ IF ok
     THEN /\ currentProgress' = updateProgress(currentProgress, "downloading")
          /\ pc' = "downloadCsv"
     ELSE /\ currentProgress' = Failed(currentProgress)
          /\ pc' = "idle"
  /\ UNCHANGED <<filteredOffers, results, resultsShared, pending>>
  /\ UNCHANGED notUpdateVars

\* downloadCsv() returns the export or throws; offers is what parseCsv and
\* filterOffers make of it
DownloadDone(ok, offers) ==
  /\ pc = "downloadCsv"
  /\ IF ok
     THEN LET counted == [updateProgress(currentProgress, "calculating")
                             EXCEPT !.totalItems = Len(offers)]
              next    == Continue(counted, offers, <<>>)
          IN /\ filteredOffers' = offers
             /\ currentProgress' = next.progress
             /\ pc' = next.pc
             /\ pending' = next.pending
     ELSE /\ offers = <<>>
          /\ currentProgress' = Failed(currentProgress)
          /\ pc' = "idle"
          /\ UNCHANGED <<filteredOffers, pending>>
  /\ UNCHANGED <<results, resultsShared>>
  /\ UNCHANGED notUpdateVars

\* the loop body for the offer at hand, from the answer of fetchOffers on
ProcessOffer(fetched, updateOk, tieUp) ==
  LET offer   == filteredOffers[Len(results) + 1]
      outcome == OfferOutcome(offer, fetched, updateOk, tieUp)
      pushed  == Append(results, [status |-> outcome.status, newPrice |-> outcome.newPrice])
      counted == IF outcome.status = "error"
                 THEN [currentProgress EXCEPT !.errorCount = @ + 1]
                 ELSE IF outcome.status = "updating"
                 THEN [currentProgress EXCEPT !.successCount = @ + 1]
                 ELSE currentProgress
      next    == Continue(counted, filteredOffers, pushed)
  IN /\ pc = "fetchOffers"
     /\ IF outcome.failure = "no" \/ CaughtPerOffer(outcome.failure)
        THEN /\ results' = pushed
             /\ resultsShared' = (resultsShared \/ outcome.status # "error")
             /\ currentProgress' = next.progress
             /\ pc' = next.pc
             /\ pending' = next.pending
        ELSE /\ currentProgress' = Failed(currentProgress)
             /\ pc' = "idle"
             /\ UNCHANGED <<results, resultsShared, pending>>
     /\ UNCHANGED filteredOffers
     /\ UNCHANGED notUpdateVars

\* one round of the poll of the price updates: answer[k] is the status the
\* marketplace gives for the update of the k-th result ("PENDING" also stands
\* for a poll request that failed)
PollUpdates(answer) ==
  LET left == {k \in pending : answer[k] = "PENDING"}
  IN /\ pc = "pollUpdates"
     /\ results' = [k \in 1..Len(results) |->
                      IF k \in pending /\ answer[k] = "SUCCESS"
                      THEN [results[k] EXCEPT !.status = "completed"]
                      ELSE IF k \in pending /\ answer[k] = "FAILURE"
                      THEN [results[k] EXCEPT !.status = "failed"]
                      ELSE results[k]]
     /\ pending' = left
     /\ IF left = {}
        THEN /\ currentProgress' = updateProgress(currentProgress, "reporting")
             /\ pc' = "generateReport"
        ELSE /\ pc' = "pollDelay"
             /\ UNCHANGED currentProgress
     /\ UNCHANGED <<filteredOffers, resultsShared>>
     /\ UNCHANGED notUpdateVars

\* await delay(POLL_INTERVAL) is over: while (pending.size > 0) goes round
PollDelayDone ==
  /\ pc = "pollDelay"
  /\ pc' = "pollUpdates"
  /\ UNCHANGED <<currentProgress, filteredOffers, results, resultsShared, pending>>
  /\ UNCHANGED notUpdateVars

\* generateReport() returns (the path, or null when it failed)
ReportDone ==
  /\ pc = "generateReport"
  /\ currentProgress' = [updateProgress(currentProgress, "completed")
                            EXCEPT !.isRunning = FALSE, !.endTime = TRUE]
  /\ pc' = "idle"
  /\ UNCHANGED <<filteredOffers, results, resultsShared, pending>>
  /\ UNCHANGED notUpdateVars

\* resetProgress()
ResetProgress ==
  /\ pc = "idle"
  /\ currentProgress # IdleProgress
  /\ currentProgress' = IdleProgress
  /\ resultsShared' = FALSE
  /\ UNCHANGED <<pc, filteredOffers, results, pending>>
  /\ UNCHANGED notUpdateVars

\* getProgress().results: the array results of the run once
\* currentProgress.results = results has run, else the [] the progress record
\* was made with
getProgress ==
  [ currentProgress |-> currentProgress,
    results |-> IF resultsShared THEN results ELSE <<>> ]

(***************************************************************************)
(* A second call of updatePrices() while a run is suspended at an await.   *)
(* updatePrices has no test of currentProgress.isRunning: the call writes   *)
(* the same module-level currentProgress.  The second run is followed for   *)
(* an export without offers to update.                                      *)
(***************************************************************************)
\* updatePrices() up to its first await, called a second time
UpdatePricesStartOther ==
  /\ pcOther = "idle"
  /\ IF env["CLIENT_ID"] = "missing" \/ env["CLIENT_SECRET"] = "missing"
     THEN /\ currentProgress' = Failed(currentProgress)
          /\ UNCHANGED pcOther
     ELSE /\ currentProgress' = StartingProgress
          /\ pcOther' = "requestExport"
  /\ resultsShared' =
        (resultsShared /\ (env["CLIENT_ID"] = "missing" \/ env["CLIENT_SECRET"] = "missing"))
  /\ UNCHANGED <<pc, filteredOffers, results, pending>>
  /\ UNCHANGED notOverlapVars

\* requestExport() of the second run returns or throws
RequestExportDoneOther(ok) ==
  /\ pcOther = "requestExport"
  /\ IF ok
     THEN /\ currentProgress' = updateProgress(currentProgress, "exporting")
          /\ pcOther' = "pollExportStatus"
     ELSE /\ currentProgress' = Failed(currentProgress)
          /\ pcOther' = "idle"
  /\ UNCHANGED <<pc, filteredOffers, results, resultsShared, pending>>
  /\ UNCHANGED notOverlapVars

\* pollExportStatus() of the second run returns the report id or throws
PollExportDoneOther(ok) ==
  /\ pcOther = "pollExportStatus"
  /\ IF ok
     THEN /\ currentProgress' = updateProgress(currentProgress, "downloading")
          /\ pcOther' = "downloadCsv"
     ELSE /\ currentProgress' = Failed(currentProgress)
          /\ pcOther' = "idle"
  /\ UNCHANGED <<pc, filteredOffers, results, resultsShared, pending>>
  /\ UNCHANGED notOverlapVars

\* downloadCsv() of the second run returns an export without offers, or
\* throws; with no offers the loops are skipped up to generateReport
DownloadDoneOther(ok) ==
  /\ pcOther = "downloadCsv"
  /\ IF ok
     THEN /\ currentProgress' =
               Continue([updateProgress(currentProgress, "calculating")
                            EXCEPT !.totalItems = 0], <<>>, <<>>).progress
          /\ pcOther' = "generateReport"
     ELSE /\ currentProgress' = Failed(currentProgress)
          /\ pcOther' = "idle"
  /\ UNCHANGED <<pc, filteredOffers, results, resultsShared, pending>>
  /\ UNCHANGED notOverlapVars

\* generateReport() of the second run returns
ReportDoneOther ==
  /\ pcOther = "generateReport"
  /\ currentProgress' = [updateProgress(currentProgress, "completed")
                            EXCEPT !.isRunning = FALSE, !.endTime = TRUE]
  /\ pcOther' = "idle"
  /\ UNCHANGED <<pc, filteredOffers, results, resultsShared, pending>>
  /\ UNCHANGED notOverlapVars


(***************************************************************************)
(* The request loops (scripts/bol-fetch-orders.js fetchAllOrders,          *)
(* scripts/bol-update-prices.js fetchOffers), one step per await.          *)
(* token is "none" (null), "captured" (the value const accessToken holds)  *)
(* or "newer" (a value obtained after accessToken was set).                *)
(***************************************************************************)
\* const maxPages = 10
maxPages == 10

\* what the marketplace answers to a page request: a page of orders, a page
\* without orders, or an error with status 401, 429 or another one
PageAnswers == {"orders", "empty", "401", "429", "other"}

\* the head of while (page <= maxPages), reached with page p
PageLoop(p) == IF p <= maxPages THEN "request" ELSE "done"

\* fetchAllOrders() up to its first await: getAccessToken() returns the
\* cached token when there is one and it is not stale, else it asks for one
FetchAllOrdersStart(stale) ==
  /\ pagesPc = "idle"
  /\ IF token # "none" /\ ~stale
     THEN /\ token' = "captured"
          /\ pagesPc' = PageLoop(1)
     ELSE IF env["CLIENT_ID"] = "missing" \/ env["CLIENT_SECRET"] = "missing"
     THEN /\ pagesPc' = "failed"
          /\ UNCHANGED token
     ELSE /\ pagesPc' = "getAccessToken"
          /\ UNCHANGED token
  /\ page' = 1
  /\ allOrders' = 0
  /\ UNCHANGED notPagesVars

\* the token request of line 56 returns or throws
AccessTokenDone(ok) ==
  /\ pagesPc = "getAccessToken"
  /\ IF ok
     THEN /\ token' = "captured"
          /\ pagesPc' = PageLoop(page)
     ELSE /\ pagesPc' = "failed"
          /\ UNCHANGED token
  /\ UNCHANGED <<page, allOrders>>
  /\ UNCHANGED notPagesVars

\* the page request returns or throws
PageAnswered(answer) ==
  /\ pagesPc = "request"
  /\ CASE answer = "orders" ->
            /\ allOrders' = allOrders + 1
            /\ page' = page + 1
            /\ pagesPc' = "delay500"
            /\ UNCHANGED token
       [] answer = "empty" ->
            /\ pagesPc' = "done"
            /\ UNCHANGED <<page, allOrders, token>>
       [] answer = "401" ->
            /\ token' = "none"
            /\ pagesPc' = IF env["CLIENT_ID"] = "missing" \/ env["CLIENT_SECRET"] = "missing"
                          THEN "failed" ELSE "refresh"
            /\ UNCHANGED <<page, allOrders>>
       [] answer = "429" ->
            /\ pagesPc' = "wait429"
            /\ UNCHANGED <<page, allOrders, token>>
       [] answer = "other" ->
            /\ page' = page + 1
            /\ pagesPc' = PageLoop(page + 1)
            /\ UNCHANGED <<allOrders, token>>
  /\ UNCHANGED notPagesVars

\* the 500 ms between two pages are over
Delay500Done ==
  /\ pagesPc = "delay500"
  /\ pagesPc' = PageLoop(page)
  /\ UNCHANGED <<page, allOrders, token>>
  /\ UNCHANGED notPagesVars

\* the token request of line 103 returns or throws; its value goes to
\* const newToken, the requests go on with accessToken
RefreshDone(ok) ==
  /\ pagesPc = "refresh"
  /\ IF ok
     THEN /\ token' = "newer"
          /\ pagesPc' = PageLoop(page)
     ELSE /\ pagesPc' = "failed"
          /\ UNCHANGED token
  /\ UNCHANGED <<page, allOrders>>
  /\ UNCHANGED notPagesVars

\* the token of the Authorization header of every page request:
\* `Bearer ${accessToken}`, the const set before the loop
PageRequestToken == "captured"

\* the 30 s after a 429 are over
Wait429Done ==
  /\ pagesPc = "wait429"
  /\ pagesPc' = PageLoop(page)
  /\ UNCHANGED <<page, allOrders, token>>
  /\ UNCHANGED notPagesVars

\* what the marketplace answers to the request for the offers of an EAN
OffersAnswers == {"offers", "429", "error"}

\* err.response?.status === 429 && attempt < 3
RetryOffers(answer, n) == answer = "429" /\ n < 3

\* fetchOffers(ean) up to its first await
FetchOffersStart ==
  /\ offersPc = "idle"
  /\ offersPc' = "getToken"
  /\ attempt' = 0
  /\ UNCHANGED notOffersVars

\* getToken() returns or throws
GetTokenDone(ok) ==
  /\ offersPc = "getToken"
  /\ offersPc' = IF ok THEN "request" ELSE "thrown"
  /\ UNCHANGED attempt
  /\ UNCHANGED notOffersVars

\* the request for the offers returns or throws
OffersAnswered(answer) ==
  /\ offersPc = "request"
  /\ offersPc' = IF answer = "offers" THEN "returned"
                 ELSE IF RetryOffers(answer, attempt) THEN "delay" ELSE "thrown"
  /\ UNCHANGED attempt
  /\ UNCHANGED notOffersVars

\* the delay before a retry is over
OffersDelayDone ==
  /\ offersPc = "delay"
  /\ attempt' = attempt + 1
  /\ offersPc' = "request"
  /\ UNCHANGED notOffersVars



(***************************************************************************)
(* The location of a picking item (scripts/bol-picking-list.js             *)
(* generateLocation and line 199).  An EAN is a sequence of digits.        *)
(***************************************************************************)
\* how many times the picking list is generated from the same data
MaxGenerations == 2

\* item.product: none, or a product with its ean ('' when it has none)
NoProduct == "no product"
Products == { NoProduct, <<>>, <<9, 7>>, <<9, 7, 8, 1>>, <<4, 7, 1, 2, 0>> }

\* item.offer?.reference: "" when the offer has none
References == { "", "R-12" }

\* Math.floor(Math.random() * 99) + 1 is one of 1..99, and
\* Math.floor(Math.random() * 9) + 1 one of 1..9: the ends and a middle value
AisleNumbers == {1, 50, 99}
ShelfNumbers == {1, 9}

\* String.fromCharCode(65 + parseInt(section) % 26) for a digit
SectionLetter(digit) == <<"A", "B", "C", "D", "E", "F", "G", "H", "I", "J">>[digit + 1]

\* generateLocation(product); aisle and shelf are what the two calls of
\* Math.random() give when they are made
generateLocation(product, aisle, shelf) ==
  IF product = NoProduct THEN "UNKNOWN"
  ELSE IF Len(product) >= 4
  THEN SectionLetter(product[1]) \o "-" \o ToString(product[2]) \o ToString(product[3])
          \o "-" \o ToString(product[4])
  ELSE "A-" \o ToString(aisle) \o "-" \o ToString(shelf)

\* location: item.offer?.reference || generateLocation(item.product)
LocationOf(item, aisle, shelf) ==
  IF item.reference # "" THEN item.reference
  ELSE generateLocation(item.product, aisle, shelf)

\* one more generation of the picking list from the same marketplace data
GenerateLocation(aisle, shelf) ==
  /\ Len(locations) < MaxGenerations
  /\ locations' = Append(locations, LocationOf(lineItem, aisle, shelf))
  /\ UNCHANGED lineItem
  /\ UNCHANGED notLocationVars

(***************************************************************************)
(* The requests followed                                                   *)
(***************************************************************************)
\* the pick requests, (orderId, itemId, productCode of the body): every line
\* by its id, a line by its EAN, and an item id that is not of the order; the
\* product code is left out (a normal package) or the mailbox code.  The id
\* "9783" is the OrderItemID of the second line of o2 and the EAN of its first.
PickRequests ==
  { <<"o1", "i1", Undefined>>, <<"o1", "i2", "2928">>, <<"o2", "i3", Undefined>>,
    <<"o1", "9781", "2928">>, <<"o2", "i1", Undefined>>, <<"o2", "9783", "2928">> }

\* what the marketplace answers during one fetch-orders request: the listing
\* of fetchAllOrders, the listing of fetchOrdersForPicking and the details of
\* each order.  A listing that fails lists nothing; the details of an order
\* that is not listed are not asked for; the lines that make the loop throw
\* are those of the order o2.
FetchAnswers ==
  { in \in [listing : Listings, pickListing : Listings, details : [OrderIds -> DetailOutcomes]] :
      /\ ~in.listing.ok => in.pickListing = in.listing
      /\ \A o \in OrderIds :
            (\A k \in 1..Len(in.pickListing.orders) : in.pickListing.orders[k] # o)
               => in.details[o] = "ok"
      /\ in.details["o1"] # "throw" }

\* the answers followed with the whole server: the orders of the first listing
\* go to currentOrders alone, and the first listing has none
FetchInputs == { x : x \in { in \in FetchAnswers : in.listing.orders = <<>> } }


\* the values of productCode in the body of a pick request: left out, the
\* mailbox code, or an empty string
PickBodies == { Undefined, "2928", "" }

(***************************************************************************)
(* Pick requests served side by side (server.js).  The pick handler is       *)
(* suspended at await createLabels(shipmentData) and at await saveData();    *)
(* the handlers of other requests run meanwhile.  const item is a reference *)
(* to an object of the array currentPickingList held when the handler       *)
(* started: once fetch-orders has assigned a new array to                   *)
(* currentPickingList the object is detached, it is of no current list.     *)
(***************************************************************************)
\* the pick requests that can be under way at the same time
PickCalls == {"a", "b"}

\* no request: the handler is not running
IdlePick ==
  [ pc |-> "idle", orderId |-> "", itemId |-> "", productCode |-> Undefined,
    idx |-> 0, detached |-> FALSE, trackingNumber |-> Undefined, status |-> 0 ]

\* the answer of a pick request: res.status(status).json(...)
PickAnswered(status, trackingNumber) ==
  [IdlePick EXCEPT !.status = status, !.trackingNumber = trackingNumber]

\* picking is a function of the calls made so far: the call p, which is
\* not running when none was made
CallOf(p) == IF p \in DOMAIN picking THEN picking[p] ELSE IdlePick

\* picking with the call p at call
WithCall(p, call) ==
  [q \in DOMAIN picking \cup {p} |-> IF q = p THEN call ELSE picking[q]]

\* the pick handler from the request to await createLabels(shipmentData)
PickBegin(p, orderId, itemId, body) ==
  LET idx == FindItem(currentPickingList, orderId, itemId)
  IN /\ CallOf(p).pc = "idle"
     /\ picking' =
          WithCall(p,
             IF missingVars(env) # {} THEN PickAnswered(400, Undefined)
             ELSE IF idx = 0 THEN PickAnswered(404, Undefined)
             ELSE [ pc |-> "createLabels", orderId |-> orderId, itemId |-> itemId,
                    productCode |-> IF body = Undefined THEN "3085" ELSE body,
                    idx |-> idx, detached |-> FALSE,
                    trackingNumber |-> Undefined, status |-> 0 ])
     /\ UNCHANGED serverVars
     /\ UNCHANGED notPickVars

\* createLabels(shipmentData) returns: the handler up to await saveData(), or
\* to its answer 500.  The assignments to item reach currentPickingList when
\* item is an object of it.
LabelsReturned(p, kind) ==
  LET call         == CallOf(p)
      shipmentData == << [ orderId     |-> call.orderId \o "_" \o call.itemId,
                           orderItemId |-> call.itemId,
                           productCode |-> call.productCode ] >>
      out          == [ kind |-> kind, barcode |-> Barcode(answered + 1),
                        messageId |-> MessageId(answered + 1) ]
      labelResult  == createLabels(env, shipmentData, <<out>>)
      label        == labelResult.labels[1]
      written      == {l \in {labelResult.labels[k].labelFilename :
                                    k \in 1..Len(labelResult.labels)} : l # NoFile}
  IN /\ call.pc = "createLabels"
     /\ kind # "error" => answered < MaxLabels
     /\ labelResult.calls = 0 => kind = "error"
     /\ labelFiles' = labelFiles \cup written
     /\ answered' = IF kind # "error" THEN answered + 1 ELSE answered
     /\ IF ~LabelAccepted(labelResult)
        THEN /\ picking' = WithCall(p, PickAnswered(500, Undefined))
             /\ UNCHANGED currentPickingList
        ELSE /\ currentPickingList' =
                  IF call.detached THEN currentPickingList
                  ELSE [currentPickingList EXCEPT ![call.idx] =
                          MarkPicked(currentPickingList[call.idx], call.productCode, label)]
             /\ picking' = WithCall(p, [call EXCEPT !.pc = "saveData",
                                                    !.trackingNumber = label.trackAndTrace])
     /\ UNCHANGED <<env, currentOrders, last, e2e>>
     /\ UNCHANGED notPickVars

\* saveData() returns (it catches its own failures): res.json({success: true,
\* trackingNumber, labelFilename})
SaveDataReturned(p) ==
  /\ CallOf(p).pc = "saveData"
  /\ picking' = WithCall(p, PickAnswered(200, picking[p].trackingNumber))
  /\ UNCHANGED serverVars
  /\ UNCHANGED notPickVars

\* POST /api/fetch-orders served while pick requests are suspended: when it
\* assigns currentPickingList, the items they hold are detached
FetchOrdersMeanwhile(listing, pickListing, details) ==
  LET assigned == /\ ~(env["CLIENT_ID"] = "missing" \/ env["CLIENT_SECRET"] = "missing")
                  /\ fetchOrders(env, listing).success
                  /\ generatePickingList(pickListing, details).success
  IN /\ FetchOrdersServed(listing, pickListing, details)
     /\ picking' = [p \in DOMAIN picking |->
                      IF assigned /\ picking[p].pc # "idle"
                      THEN [picking[p] EXCEPT !.detached = TRUE] ELSE picking[p]]
     /\ UNCHANGED notPickVars

(***************************************************************************)
(* Sessions (server.js: requireAuth, POST /api/login, POST /api/logout).   *)
(* A session id is Math.random().toString(36).substring(2) + Date.now():   *)
(* the ids are taken to differ, the n-th login makes the id n.  The header *)
(* x-session-id is an id, or 0 when it is absent.  session.lastAccessed is *)
(* written and never read and is left out.                                 *)
(***************************************************************************)
\* the most logins followed
MaxSessions == 2

\* 8 * 60 * 60 * 1000 ms, in units of four hours
EightHours == 2

\* the last moment looked at: a session of the first moment is too old then
MaxTime == EightHours + 1

\* the values of the header x-session-id
SessionHeaders == 0..MaxSessions

\* Expired that never finds a session too old
ExpiredNever(created, time) == FALSE

\* Date.now() - session.created > 8 * 60 * 60 * 1000
Expired(created, time) == time - created > EightHours

\* requireAuth calls next()
requireAuth(sessionId) ==
  /\ sessionId \in DOMAIN sessions
  /\ ~Expired(sessions[sessionId], now)

\* sessions after requireAuth: if (session) sessions.delete(sessionId) when
\* it answers 401
Deleted(sessionId) == [s \in DOMAIN sessions \ {sessionId} |-> sessions[s]]

\* requireAuth answers 401 for the request op
Denied(op, sessionId) ==
  /\ ~requireAuth(sessionId)
  /\ last' = Response(op, 401, "", 0, "none", FALSE, <<>>)
  /\ sessions' = Deleted(sessionId)
  /\ revoked' = IF sessionId \in DOMAIN sessions THEN revoked \cup {sessionId} ELSE revoked
  /\ UNCHANGED <<env, currentPickingList, currentOrders, labelFiles, answered, e2e>>
  /\ UNCHANGED <<now, issued, logins>>
  /\ UNCHANGED notServerAuthVars

\* POST /api/login
Login(ok) ==
  /\ IF ok
     THEN /\ issued < MaxSessions
          /\ issued' = issued + 1
          /\ sessions' = [s \in DOMAIN sessions \cup {issued + 1} |->
                            IF s = issued + 1 THEN now ELSE sessions[s]]
          /\ logins' = [s \in DOMAIN logins \cup {issued + 1} |->
                            IF s = issued + 1 THEN now ELSE logins[s]]
          /\ last' = Response("login", 200, "", 0, "none", FALSE, <<>>)
     ELSE /\ last' = Response("login", 401, "", 0, "none", FALSE, <<>>)
          /\ UNCHANGED <<sessions, issued, logins>>
  /\ UNCHANGED <<env, currentPickingList, currentOrders, labelFiles, answered, e2e>>
  /\ UNCHANGED <<now, revoked>>
  /\ UNCHANGED notServerAuthVars

\* POST /api/logout, behind requireAuth
Logout(sessionId) ==
  \/ Denied("logout", sessionId)
  \/ /\ requireAuth(sessionId)
     /\ sessions' = IF sessionId # 0 THEN Deleted(sessionId) ELSE sessions
     /\ revoked' = revoked \cup {sessionId}
     /\ last' = Response("logout", 200, "", 0, "none", FALSE, <<>>)
     /\ UNCHANGED <<env, currentPickingList, currentOrders, labelFiles, answered, e2e>>
     /\ UNCHANGED <<now, issued, logins>>
     /\ UNCHANGED notServerAuthVars

\* time passes
Tick ==
  /\ now < MaxTime
  /\ now' = now + 1
  /\ UNCHANGED <<sessions, issued, logins, revoked>>
  /\ UNCHANGED serverVars
  /\ UNCHANGED notServerAuthVars

\* the requests followed behind the middleware: the order o1 and its two
\* lines
AuthFetchInputs ==
  { x : x \in
      { in \in FetchInputs :
          /\ in.listing.ok
          /\ in.pickListing \in {[ok |-> FALSE, orders |-> <<>>], [ok |-> TRUE, orders |-> <<"o1">>]}
          /\ \A o \in OrderIds : in.details[o] = "ok" } }

AuthPickRequests == { <<"o1", "i1", Undefined>>, <<"o1", "i2", "2928">> }

\* POST /api/fetch-orders with its middleware
AuthFetchOrders(sessionId) ==
  \/ Denied("fetch", sessionId)
  \/ /\ requireAuth(sessionId)
     /\ \E in \in AuthFetchInputs : FetchOrders(in.listing, in.pickListing, in.details)

\* POST /api/orders/:orderId/items/:itemId/pick with its middleware
AuthPick(sessionId) ==
  \/ Denied("pick", sessionId)
  \/ /\ requireAuth(sessionId)
     /\ \E req \in AuthPickRequests, kind \in {"full", "error"} :
           Pick(req[1], req[2], req[3], kind)

\* POST /api/orders/:orderId/ship with its middleware
AuthShip(sessionId) ==
  \/ Denied("ship", sessionId)
  \/ /\ requireAuth(sessionId)
     /\ \E tokenOk \in BOOLEAN : Ship("o1", tokenOk, <<TRUE, TRUE>>)

(***************************************************************************)
(* The specification                                                       *)
(***************************************************************************)
\* the server after its start, before any request
ServerIdle ==
  /\ currentPickingList = <<>>
  /\ currentOrders = <<>>
  /\ labelFiles = {}
  /\ answered = 0
  /\ last = Response("none", 0, "", 0, "none", FALSE, <<>>)
  /\ e2e = 0

\* no call of advisePrice is being looked at
AdviseIdle ==
  /\ myPrice = 0
  /\ myCond = "NEW"
  /\ competitors = [c \in {CONDITIONS[i] : i \in 1..Len(CONDITIONS)} |-> NA]
  /\ advised = NotCalled

\* the price update module after its load, before any run
UpdateIdle ==
  /\ currentProgress = IdleProgress
  /\ pc = "idle"
  /\ filteredOffers = <<>>
  /\ results = <<>>
  /\ resultsShared = FALSE
  /\ pending = {}

\* no second call of updatePrices
OverlapIdle == pcOther = "idle"

\* no call of fetchAllOrders, no token yet
PagesIdle ==
  /\ pagesPc = "idle"
  /\ page = 1
  /\ allOrders = 0
  /\ token = "none"

\* no call of fetchOffers
OffersIdle ==
  /\ offersPc = "idle"
  /\ attempt = 0

\* let sessions = new Map(), at the start of the process
AuthIdle ==
  /\ sessions = <<>>
  /\ now = 0
  /\ issued = 0
  /\ logins = <<>>
  /\ revoked = {}

\* no order line looked at
LocationIdle ==
  /\ lineItem = [reference |-> "", product |-> NoProduct]
  /\ locations = <<>>

\* the parts of the program the server's handlers are checked without
\* no pick request is being served
PickIdle == picking = <<>>

RestIdle ==
  /\ PickIdle
  /\ AdviseIdle
  /\ UpdateIdle
  /\ OverlapIdle
  /\ PagesIdle
  /\ OffersIdle
  /\ AuthIdle
  /\ LocationIdle

Init ==
  /\ env \in Envs
  /\ ServerIdle
  /\ RestIdle

Next ==
  \/ \E in \in FetchInputs :
        FetchOrders(in.listing, in.pickListing, in.details)
  \/ \E req \in PickRequests, kind \in CarrierKinds :
        Pick(req[1], req[2], req[3], kind)
  \/ \E orderId \in OrderIds, tokenOk \in BOOLEAN,
        oks \in UNION {[1..n -> BOOLEAN] : n \in 0..2} :
        Ship(orderId, tokenOk, oks)
  \/ GetOrders
  \/ \E k \in DownloadRequests : DownloadItemLabel(k)

Spec == Init /\ [][Next]_vars

\* the price advisor on its own: the inputs are drawn, then the call is made
AdviseInit ==
  /\ env = AllReal
  /\ ServerIdle
  /\ myPrice \in OwnPrices
  /\ myCond \in {CONDITIONS[i] : i \in 1..Len(CONDITIONS)}
  /\ competitors \in CompetitorMaps
  /\ advised = NotCalled
  /\ UpdateIdle
  /\ OverlapIdle
  /\ PagesIdle
  /\ OffersIdle
  /\ AuthIdle
  /\ PickIdle
  /\ LocationIdle

AdviseNext == \E tieUp \in BOOLEAN : Advise(tieUp)

AdviseSpec == AdviseInit /\ [][AdviseNext]_vars

\* the price update runs on their own
UpdateInit == Init

\* the steps of a started run
RunNext ==
  \/ \E ok \in BOOLEAN : RequestExportDone(ok)
  \/ PollExportPending
  \/ ExportDelayDone
  \/ \E ok \in BOOLEAN : PollExportDone(ok)
  \/ \E ok \in BOOLEAN, offers \in OfferLists : DownloadDone(ok, offers)
  \/ \E fetched \in Fetched, updateOk \in BOOLEAN, tieUp \in BOOLEAN :
        ProcessOffer(fetched, updateOk, tieUp)
  \/ \E answer \in [1..MaxOffers -> {"SUCCESS", "FAILURE", "PENDING"}] :
        PollUpdates(answer)
  \/ PollDelayDone
  \/ ReportDone

UpdateNext ==
  \/ UpdatePricesStart
  \/ RunNext
  \/ ResetProgress

UpdateSpec == UpdateInit /\ [][UpdateNext]_vars

\* the price update where every await of a started run returns: a request is
\* answered or fails, a timer fires
UpdateLiveInit == Init

UpdateLiveSpec == UpdateLiveInit /\ [][UpdateNext]_vars /\ WF_vars(RunNext)


\* the price update with a second call of updatePrices() at any time
OverlapInit == Init

OtherNext ==
  \/ UpdatePricesStartOther
  \/ \E ok \in BOOLEAN : RequestExportDoneOther(ok)
  \/ \E ok \in BOOLEAN : PollExportDoneOther(ok)
  \/ \E ok \in BOOLEAN : DownloadDoneOther(ok)
  \/ ReportDoneOther

OverlapNext == UpdateNext \/ OtherNext

OverlapSpec == OverlapInit /\ [][OverlapNext]_vars


\* the request loops; the module may hold a token of an earlier call.  Every
\* await returns: a request is answered or times out, a timer fires.
RetryInit ==
  /\ env \in Envs
  /\ ServerIdle
  /\ AdviseIdle
  /\ UpdateIdle
  /\ OverlapIdle
  /\ pagesPc = "idle"
  /\ page = 1
  /\ allOrders = 0
  /\ token \in {"none", "captured"}
  /\ OffersIdle
  /\ AuthIdle
  /\ PickIdle
  /\ LocationIdle

PagesNext ==
  \/ \E stale \in BOOLEAN : FetchAllOrdersStart(stale)
  \/ \E ok \in BOOLEAN : AccessTokenDone(ok)
  \/ \E answer \in PageAnswers : PageAnswered(answer)
  \/ Delay500Done
  \/ \E ok \in BOOLEAN : RefreshDone(ok)
  \/ Wait429Done

OffersNext ==
  \/ FetchOffersStart
  \/ \E ok \in BOOLEAN : GetTokenDone(ok)
  \/ \E answer \in OffersAnswers : OffersAnswered(answer)
  \/ OffersDelayDone

RetryNext == PagesNext \/ OffersNext

RetrySpec ==
  RetryInit /\ [][RetryNext]_vars /\ WF_vars(PagesNext) /\ WF_vars(OffersNext)


\* the server behind its sessions, with every variable of the environment set
AuthInit ==
  /\ env = AllReal
  /\ ServerIdle
  /\ RestIdle

AuthNext ==
  \/ \E ok \in BOOLEAN : Login(ok)
  \/ \E sessionId \in SessionHeaders : Logout(sessionId)
  \/ Tick
  \/ \E sessionId \in SessionHeaders : AuthFetchOrders(sessionId)
  \/ \E sessionId \in SessionHeaders : AuthPick(sessionId)
  \/ \E sessionId \in SessionHeaders : AuthShip(sessionId)

AuthSpec == AuthInit /\ [][AuthNext]_vars


\* the location of an order line, generated again and again from the same data
LocationInit ==
  /\ env = AllReal
  /\ ServerIdle
  /\ AdviseIdle
  /\ UpdateIdle
  /\ OverlapIdle
  /\ PagesIdle
  /\ OffersIdle
  /\ AuthIdle
  /\ PickIdle
  /\ lineItem \in [reference : References, product : Products]
  /\ locations = <<>>

LocationNext == \E aisle \in AisleNumbers, shelf \in ShelfNumbers : GenerateLocation(aisle, shelf)

LocationSpec == LocationInit /\ [][LocationNext]_vars


\* the picks of the lines of the order o1 with every productCode of the body,
\* every variable of the environment being set
PackageInit ==
  /\ env = AllReal
  /\ ServerIdle
  /\ RestIdle

PackageNext ==
  \/ \E in \in AuthFetchInputs : FetchOrders(in.listing, in.pickListing, in.details)
  \/ \E itemId \in {"i1", "i2"}, body \in PickBodies, kind \in CarrierKinds :
        Pick("o1", itemId, body, kind)

PackageSpec == PackageInit /\ [][PackageNext]_vars


\* fetch-orders requests with every answer of the two listings
OrdersInit == Init

OrdersNext ==
  \E in \in FetchAnswers : FetchOrders(in.listing, in.pickListing, in.details)

OrdersSpec == OrdersInit /\ [][OrdersNext]_vars


\* pick requests for the lines of the order o1 served side by side, and
\* fetch-orders requests served meanwhile
SideBySideInit == Init

SideBySideNext ==
  \/ \E p \in PickCalls, req \in AuthPickRequests : PickBegin(p, req[1], req[2], req[3])
  \/ \E p \in PickCalls, kind \in {"full", "noBarcode", "error"} : LabelsReturned(p, kind)
  \/ \E p \in PickCalls : SaveDataReturned(p)
  \/ \E in \in AuthFetchInputs :
        FetchOrdersMeanwhile(in.listing, in.pickListing, in.details)

SideBySideSpec == SideBySideInit /\ [][SideBySideNext]_vars

(***************************************************************************)
(* Properties                                                              *)
(***************************************************************************)
\* the pick fields of the item at position k
PickFields(list, k) ==
  <<list[k].picked, list[k].trackingNumber, list[k].labelFilename>>

\* the positions of the picking list
Items == 1..Len(currentPickingList)

\* C1: every picking item is picked if and only if it has both a tracking
\* number and a label file name.
C1_PickedIffLabelled ==
  \A k \in Items :
     currentPickingList[k].picked <=>
        (~Falsy(currentPickingList[k].trackingNumber)
           /\ currentPickingList[k].labelFilename # NoFile)

\* C2: a fetch-orders request leaves the pick fields of every picked item that
\* the new picking list still holds as they were.
C2_RefetchKeepsPicked ==
  [][ (last'.op = "fetch" /\ last'.status = 200) =>
        \A k \in Items : \A j \in 1..Len(currentPickingList') :
           ( /\ currentPickingList[k].picked
             /\ currentPickingList'[j].MessageID = currentPickingList[k].MessageID
             /\ currentPickingList'[j].OrderItemID = currentPickingList[k].OrderItemID )
           => PickFields(currentPickingList', j) = PickFields(currentPickingList, k) ]_vars

\* C3: a pick whose carrier request fails leaves the whole picking list as it
\* was and creates no label file.
C3_CarrierFailureChangesNothing ==
  [][ (last'.op = "pick" /\ last'.carrier = "error") =>
        /\ currentPickingList' = currentPickingList
        /\ labelFiles' = labelFiles
        /\ last'.status = 500 ]_vars

\* C3 witness: a pick failed at the carrier, its item is still unpicked
C3_Witness ==
  /\ last.op = "pick" /\ last.carrier = "error" /\ last.target # 0
  /\ ~currentPickingList[last.target].picked
  /\ Falsy(currentPickingList[last.target].trackingNumber)
  /\ labelFiles = {}

\* C4: a pick whose label response lacks the barcode or the label content
\* leaves the pick fields of its item as they were.
C4_MalformedResponseLeavesItem ==
  [][ (last'.op = "pick" /\ last'.carrier \in {"noBarcode", "noContent", "empty"}) =>
        PickFields(currentPickingList', last'.target)
           = PickFields(currentPickingList, last'.target) ]_vars

\* the preconditions of the shipment registration of an order
ShipReady(orderId) ==
  /\ env["CLIENT_ID"] # "missing" /\ env["CLIENT_SECRET"] # "missing"
  /\ \E k \in Items : currentPickingList[k].MessageID = orderId
  /\ \A k \in Items : currentPickingList[k].MessageID = orderId =>
        /\ currentPickingList[k].picked
        /\ ~Falsy(currentPickingList[k].trackingNumber)

\* C5: a ship request sends shipment registrations only for an order that has
\* items, all of them picked and with a tracking number, with the marketplace
\* credentials present; for any other order it answers an error, sends none
\* and changes no item.
C5_ShipOnlyWhenReady ==
  [][ last'.op = "ship" =>
        /\ (last'.bolAuth \/ last'.bolCalls # <<>>) => ShipReady(last'.orderId)
        /\ ~ShipReady(last'.orderId) =>
              /\ last'.status \in {400, 404}
              /\ ~last'.bolAuth
              /\ last'.bolCalls = <<>>
              /\ currentPickingList' = currentPickingList ]_vars

\* C5 witness: a ship request for an order with a picked and an unpicked item
\* was refused without a marketplace call
C5_Witness ==
  /\ last.op = "ship" /\ last.status = 400 /\ ~last.bolAuth /\ last.bolCalls = <<>>
  /\ \E k \in Items : currentPickingList[k].MessageID = last.orderId
                       /\ currentPickingList[k].picked
  /\ \E k \in Items : currentPickingList[k].MessageID = last.orderId
                       /\ ~currentPickingList[k].picked

\* C6: a ship request during which a remote call fails marks no item shipped
\* and leaves the pick fields of every item as they were.
C6_RemoteErrorShipsNothing ==
  [][ ( /\ last'.op = "ship"
        /\ \/ last'.status = 500
           \/ \E n \in 1..Len(last'.bolCalls) : ~last'.bolCalls[n].ok ) =>
        \A k \in Items :
           /\ currentPickingList'[k].shipped = currentPickingList[k].shipped
           /\ PickFields(currentPickingList', k) = PickFields(currentPickingList, k) ]_vars

\* C7: every shipped item is picked.
C7_ShippedImpliesPicked ==
  \A k \in Items : currentPickingList[k].shipped => currentPickingList[k].picked

\* C7 witness: an item is shipped
C7_Witness ==
  \E k \in Items : currentPickingList[k].shipped /\ currentPickingList[k].picked

\* every picking item of the order is shipped
AllShipped(orderId) ==
  \A k \in Items : currentPickingList[k].MessageID = orderId => currentPickingList[k].shipped

\* every / some picking item of the order is picked
AllPicked(orderId) ==
  \A k \in Items : currentPickingList[k].MessageID = orderId => currentPickingList[k].picked
SomePicked(orderId) ==
  \E k \in Items : currentPickingList[k].MessageID = orderId /\ currentPickingList[k].picked

\* the orders GET /api/orders answers in the current state
Orders == OrdersOf(currentPickingList)

\* C8: in the answer of GET /api/orders an order has allItemsShipped, shipped
\* and the status 'shipped' exactly when every picking item of it is shipped.
C8_ShippedOrderIffAllItemsShipped ==
  last.op = "orders" =>
     \A n \in 1..Len(Orders) :
        /\ Orders[n].allItemsShipped <=> AllShipped(Orders[n].id)
        /\ Orders[n].shipped <=> AllShipped(Orders[n].id)
        /\ (Orders[n].status = "shipped") <=> AllShipped(Orders[n].id)

\* C8 witness: the answer holds a shipped order of two items and an order that
\* is not shipped
C8_Witness ==
  /\ last.op = "orders"
  /\ \E n \in 1..Len(Orders) : Orders[n].allItemsShipped /\ Len(Orders[n].items) = 2
  /\ \E n \in 1..Len(Orders) : ~Orders[n].allItemsShipped

\* C9: in the answer of GET /api/orders an order that is not shipped is 'ready'
\* exactly when all its items are picked, 'picking' exactly when some but not
\* all are, and 'open' exactly when none is.
C9_StatusFollowsPickedItems ==
  last.op = "orders" =>
     \A n \in 1..Len(Orders) :
        ~AllShipped(Orders[n].id) =>
           /\ (Orders[n].status = "ready") <=> AllPicked(Orders[n].id)
           /\ (Orders[n].status = "picking") <=>
                 (SomePicked(Orders[n].id) /\ ~AllPicked(Orders[n].id))
           /\ (Orders[n].status = "open") <=> ~SomePicked(Orders[n].id)

\* C9 witness: the answer holds an order whose first item is picked and whose
\* second is not, and it is 'picking'
C9_Witness ==
  /\ last.op = "orders"
  /\ \E n \in 1..Len(Orders) :
        /\ Len(Orders[n].items) = 2
        /\ Orders[n].items[1].picked /\ ~Orders[n].items[2].picked
        /\ Orders[n].status = "picking"

\* the tracking numbers the marketplace accepted in the last request
Registered == {last.bolCalls[n].trackAndTrace : n \in {m \in 1..Len(last.bolCalls) : last.bolCalls[m].ok}}

\* C10: after fetch (one order, two items), pick A as normal package, pick B
\* as mailbox package and ship, all remote calls succeeding, two distinct
\* tracking numbers are registered, both items are shipped and the order is
\* answered with the status 'shipped'.
C10_EndToEnd ==
  e2e = 4 =>
     /\ last.op = "ship" /\ last.status = 200
     /\ Cardinality(Registered) = 2
     /\ Registered = {currentPickingList[k].trackingNumber : k \in Items}
     /\ \A k \in Items : currentPickingList[k].shipped
     /\ currentPickingList[1].productCode = "3085"
     /\ currentPickingList[2].productCode = "2928"
     /\ Len(Orders) = 1
     /\ Orders[1].status = "shipped"
     /\ Len(Orders[1].trackingNumbers) = 2

\* C10 witness: the scenario has run to its end
C10_Witness ==
  e2e = 4 /\ Len(currentPickingList) = 2

\* C11: a download request for a picked item whose label file was stored, made
\* with the item's tracking code, returns the file.
C11_DownloadFindsLabel ==
  (last.op = "download") =>
     LET item == currentPickingList[last.target]
     IN (item.picked /\ item.labelFilename \in labelFiles) => last.status = 200

\* the requested id is that of no line of the order, nor the EAN of one
UnknownItem(orderId, itemId) ==
  \A k \in Items :
     ~( /\ currentPickingList[k].MessageID = orderId
        /\ (currentPickingList[k].OrderItemID = itemId
              \/ currentPickingList[k].EAN = itemId) )

\* a required carrier variable is not set in the environment
ConfigIncomplete == \E v \in requiredPostNLVars : env[v] = "missing"

\* C12: a pick made while a required carrier variable is missing answers 400
\* whether or not the item exists; with the configuration complete, a pick of
\* an unknown item answers 404; both without a carrier call and without a
\* change of the picking list or of the label files.
C12_PickChecksInOrder ==
  [][ (last'.op = "pick") =>
        /\ ConfigIncomplete =>
              /\ last'.status = 400
              /\ last'.carrier = "none"
              /\ answered' = answered
              /\ currentPickingList' = currentPickingList
              /\ labelFiles' = labelFiles
        /\ ~ConfigIncomplete =>
              \/ /\ last'.status = 404
                 /\ last'.carrier = "none"
                 /\ answered' = answered
                 /\ currentPickingList' = currentPickingList
                 /\ labelFiles' = labelFiles
              \/ \A req \in PickRequests, kind \in CarrierKinds :
                    ~(UnknownItem(req[1], req[2]) /\ Pick(req[1], req[2], req[3], kind)) ]_vars

\* C12 witness: a pick was refused for its configuration while the picking
\* list holds no item at all
C12_Witness ==
  /\ last.op = "pick" /\ last.status = 400
  /\ ConfigIncomplete
  /\ currentPickingList = <<>>

\* C13: a pick whose requested id is the OrderItemID of an item of the order
\* picks that item.
C13_PickByItemIdFirst ==
  [][ \A req \in PickRequests, kind \in CarrierKinds :
        (Pick(req[1], req[2], req[3], kind) /\ last'.status = 200)
        => \A k \in Items :
              ( /\ currentPickingList[k].MessageID = req[1]
                /\ currentPickingList[k].OrderItemID = req[2] )
              => last'.target = k ]_vars
\* C14: with no competitor data at any tier, advisePrice returns 45.00 for
\* every own price and every own condition.
C14_FallbackWithoutCompetition ==
  (advised.status # "none" /\ \A c \in DOMAIN competitors : competitors[c] = NA)
     => (advised.status = "returned" /\ advised.price = 4500)

\* C14 witness: the call was made for a used tier without any competitor data
C14_Witness ==
  /\ advised.status = "returned" /\ advised.price = 4500
  /\ myCond = "GOOD"
  /\ \A c \in DOMAIN competitors : competitors[c] = NA

\* C15: the price advisePrice returns does not exceed, for any better tier
\* with competitor data, that tier's price times 0.775 to the power of the
\* distance between the tiers.
C15_DiscountAgainstEveryBetterTier ==
  (advised.status = "returned" /\ ~NoCompetition(competitors)) =>
     \A j \in 1..(IndexOf(myCond) - 1) :
        competitors[CONDITIONS[j]] # NA =>
           Le(<<advised.price, 1>>,
              Discounted(competitors[CONDITIONS[j]], IndexOf(myCond) - j))

\* C16: every price advisePrice returns is at least 7.50.
C16_AbsoluteFloor ==
  advised.status = "returned" => advised.price >= 750

\* C16 witness: the minimum was applied to an undercut below it
C16_Witness ==
  /\ advised.status = "returned" /\ advised.price = 750
  /\ myCond = "GOOD" /\ competitors["GOOD"] = 500

\* C17: against a competitor at my own used tier with a price p other than
\* mine and p - 0.05 >= 7.50, advisePrice returns a price of at most p - 0.05
\* and at least 7.50.
C17_UndercutOwnTier ==
  ( /\ advised.status # "none"
    /\ myCond \in {"AS_NEW", "GOOD", "REASONABLE", "MODERATE"}
    /\ competitors[myCond] # NA
    /\ competitors[myCond] # myPrice
    /\ competitors[myCond] - 5 >= 750 )
  => /\ advised.status = "returned"
     /\ advised.price <= competitors[myCond] - 5
     /\ advised.price >= 750

\* C17 witness: my GOOD offer at 10.00 against a competitor's GOOD at 9.00
\* got 8.95
C17_Witness ==
  /\ myCond = "GOOD" /\ myPrice = 1000 /\ competitors["GOOD"] = 900
  /\ advised.status = "returned" /\ advised.price = 895

\* C18: advisePrice returns a price and an explanation for every condition
\* tier and every competitor map: no call fails.
C18_AdvisePriceTotal ==
  advised.status # "thrown"
\* the stages of a run in their order
StageOrder ==
  <<"exporting", "downloading", "processing", "calculating", "finalizing",
    "reporting", "completed">>

\* the place of a stage in that order, 0 for a stage that is not of it
StageRank(stage) ==
  IF \E i \in 1..Len(StageOrder) : StageOrder[i] = stage
  THEN CHOOSE i \in 1..Len(StageOrder) : StageOrder[i] = stage
  ELSE 0

C20_OfferFailureIsolated ==
  [][ \A fetched \in Fetched, updateOk \in BOOLEAN, tieUp \in BOOLEAN :
        ( /\ ProcessOffer(fetched, updateOk, tieUp)
          /\ OfferOutcome(filteredOffers[Len(results) + 1],
                          fetched, updateOk, tieUp).failure # "no" )
        => /\ currentProgress'.stage \in {"calculating", "finalizing", "reporting"}
           /\ currentProgress'.errorCount = currentProgress.errorCount + 1
           /\ results' = Append(results, [status |-> "error", newPrice |-> 0])
           /\ pc' # "idle" ]_vars

\* C20 witness: the first offer failed, the second was updated, and the run
\* is completed
C20_Witness ==
  /\ currentProgress.stage = "completed"
  /\ currentProgress.errorCount = 1
  /\ Len(results) = 2
  /\ results[1].status = "error" /\ results[2].status = "completed"

\* C21: at most one price-update run is active at any time, and isRunning is
\* true as long as a started run is still executing.
C21_OneRunDescribed ==
  /\ ~(pc # "idle" /\ pcOther # "idle")
  /\ (pc # "idle" \/ pcOther # "idle") => currentProgress.isRunning

\* C22: no request loop goes on re-issuing its request forever on 429
\* answers: the fetch of the competitor offers of an EAN and the fetch of the
\* order pages each leave their request-and-wait cycle again and again (for
\* good once they have returned).
C22_BoundedRetry429 ==
  /\ []<>(offersPc \notin {"request", "delay"})
  /\ []<>(pagesPc \notin {"request", "wait429"})

\* C23: a started price-update run, each of whose remote calls returns,
\* reaches stage completed or error with isRunning false.
C23_RunEnds ==
  (pc # "idle") ~> ( /\ pc = "idle"
                     /\ currentProgress.stage \in {"completed", "error"}
                     /\ ~currentProgress.isRunning )

\* a request of fetch-orders, pick or ship carrying the session id is served
\* in this step
Asked(sessionId) ==
  \/ last'.op = "fetch" /\ AuthFetchOrders(sessionId)
  \/ last'.op = "pick" /\ AuthPick(sessionId)
  \/ last'.op = "ship" /\ AuthShip(sessionId)

\* fetch-orders, pick and ship are served exactly for the ids of a successful
\* login at most maxAge ago that were not logged out or found expired since;
\* any other request is answered 401 and changes nothing
ServedOnlyWithSession(maxAge) ==
  \A sessionId \in SessionHeaders :
     IF /\ sessionId \in DOMAIN logins
        /\ now - logins[sessionId] <= maxAge
        /\ sessionId \notin revoked
     THEN last'.status = 401 => ~Asked(sessionId)
     ELSE \/ /\ last'.status = 401
             /\ UNCHANGED <<currentPickingList, labelFiles, answered>>
          \/ ~Asked(sessionId)

\* C24 as stated: fetch-orders, pick and ship take effect only for a session
\* created by a successful login less than 8 hours earlier and not logged
\* out; any other request is answered 401 and changes nothing, and an id is
\* not accepted again after logout or after its expiry was detected.
C24_SessionUnderEightHours == [][ServedOnlyWithSession(EightHours - 1)]_vars

\* C24 as amended: the same for a session created at most 8 hours earlier.
C24_SessionUpToEightHours == [][ServedOnlyWithSession(EightHours)]_vars

\* C24 witness: a pick was served for the second session, the only one left,
\* after the first one was logged out or found expired
C24_Witness ==
  /\ last.op = "pick" /\ last.status = 200
  /\ DOMAIN sessions = {2}
  /\ revoked = {1}

\* C25: the location of an item is a function of the marketplace's reference
\* or else of the product's EAN: generating the picking list again from the
\* same marketplace data gives the item the same location.
C25_LocationDeterministic ==
  \A i, j \in 1..Len(locations) : locations[i] = locations[j]

\* the entries of a list that stand for the k-th line of the order
EntriesFor(list, orderId, k) ==
  { n \in 1..Len(list) : /\ list[n].MessageID = orderId
                         /\ list[n].OrderItemID = BolOrderItems[orderId][k].orderItemId
                         /\ list[n].EAN = BolOrderItems[orderId][k].ean }

\* the number of lines of the orders of a listing, from the k-th order on
RECURSIVE LinesOf(_, _)
LinesOf(orders, k) ==
  IF k > Len(orders) THEN 0 ELSE Len(BolOrderItems[orders[k]]) + LinesOf(orders, k + 1)

\* C26: the picking list generated from the marketplace's open orders holds
\* exactly one picking item per line of every open order, none dropped and
\* none added, and every generated item has picked = FALSE.
C26_OneItemPerOrderLine ==
  [][ \A in \in FetchInputs :
        ( /\ last'.op = "fetch" /\ last'.status = 200
          /\ in.pickListing.ok
          /\ FetchOrders(in.listing, in.pickListing, in.details) )
        => /\ \A o \in 1..Len(in.pickListing.orders) :
                \A k \in 1..Len(BolOrderItems[in.pickListing.orders[o]]) :
                   Cardinality(EntriesFor(currentPickingList', in.pickListing.orders[o], k)) = 1
           /\ Len(currentPickingList') = LinesOf(in.pickListing.orders, 1)
           /\ \A n \in 1..Len(currentPickingList') : ~currentPickingList'[n].picked ]_vars

C28_UpdateIffPriceDiffers ==
  [][ \A fetched \in Fetched \ {"fail"}, tieUp \in BOOLEAN :
        LET offer  == filteredOffers[Len(results) + 1]
            advice == advisePrice(offer.price, offer.cond, FetchedMap(fetched), tieUp)
        IN ( /\ pc = "fetchOffers"
             /\ advice.status = "returned"
             /\ ProcessOffer(fetched, TRUE, tieUp) )
           => /\ Len(results') = Len(results) + 1
              /\ results'[Len(results')].status =
                    (IF advice.price # offer.price THEN "updating" ELSE "no_change") ]_vars

\* C29: after a successful pick the productCode stored on the item equals the
\* code forwarded to the carrier, which equals the code of the request, or
\* '3085' when the request has none.
C29_ProductCodeVerbatim ==
  [][ \A itemId \in {"i1", "i2"}, body \in PickBodies, kind \in CarrierKinds :
        ( /\ last'.op = "pick" /\ last'.status = 200
          /\ Pick("o1", itemId, body, kind) )
        => /\ currentPickingList'[last'.target].productCode = last'.forwarded
           /\ last'.forwarded = (IF body = Undefined THEN "3085" ELSE body) ]_vars

\* one of the carrier credentials validatePostNLConfig looks at holds a
\* placeholder
ConfigPlaceholder ==
  \E v \in {"API_KEY", "CUSTOMER_NUMBER", "CUSTOMER_CODE", "COLLECTION_LOCATION"} :
     env[v] = "placeholder"

C31_ResultsExposed ==
  pc # "idle" => getProgress.results = results

\* the positions of results whose status is one of statuses
WithStatus(statuses) == {k \in 1..Len(results) : results[k].status \in statuses}

\* C32: when a run is at stage completed, successCount is the number of offers
\* whose price update completed at the marketplace and errorCount is the
\* number of offers whose processing or whose update failed.
C32_CountersAgree ==
  currentProgress.stage = "completed" =>
    /\ currentProgress.successCount = Cardinality(WithStatus({"completed"}))
    /\ currentProgress.errorCount = Cardinality(WithStatus({"error", "failed"}))

\* the stages of a run under way, and the stages of a run that is over
RunningStages ==
  {"exporting", "downloading", "processing", "calculating", "finalizing", "reporting"}
EndStages == {"completed", "error"}

\* C38: in every state the progress query can see, isRunning is true exactly
\* in the stages exporting, downloading, processing, calculating, finalizing
\* and reporting, false exactly in the stages idle, completed and error, and
\* endTime is set exactly in the stages completed and error.
C38_RunningMatchesStage ==
  /\ currentProgress.stage \in RunningStages \cup EndStages \cup {"idle"}
  /\ currentProgress.isRunning <=> currentProgress.stage \in RunningStages
  /\ currentProgress.endTime <=> currentProgress.stage \in EndStages

\* C33: a pick request for an item that a pick has already marked picked (the
\* item shipped or not) gets no label from the carrier, writes no label file
\* and leaves the item's trackingNumber and labelFilename as they were.
C33_RepickChangesNothing ==
  [][ ( /\ last'.op = "pick" /\ last'.target # 0
        /\ currentPickingList[last'.target].picked )
      => /\ last'.carrier \notin WithBarcode \cup WithContent
         /\ labelFiles' = labelFiles
         /\ PickFields(currentPickingList', last'.target)
               = PickFields(currentPickingList, last'.target) ]_vars

\* C34: a ship request for an order whose items are already all shipped sends
\* no shipment registration to the marketplace, so that an order is registered
\* at most once.
C34_ShippedOrderNotRegisteredAgain ==
  [][ ( /\ last'.op = "ship"
        /\ OrderItemsOf(currentPickingList, last'.orderId) # {}
        /\ AllShipped(last'.orderId) )
      => last'.bolCalls = <<>> ]_vars

\* the ids of the orders of currentOrders
OrdersKept == {currentOrders[n] : n \in 1..Len(currentOrders)}

\* C36: after a fetch-orders request answered with success, every picking
\* item belongs to an order of currentOrders, and every line of every order of
\* currentOrders has its item in the picking list.
C36_OrdersMatchPickingList ==
  (last.op = "fetch" /\ last.status = 200) =>
     /\ \A k \in Items : currentPickingList[k].MessageID \in OrdersKept
     /\ \A o \in OrdersKept : \A n \in 1..Len(BolOrderItems[o]) :
           \E k \in Items :
              /\ currentPickingList[k].MessageID = o
              /\ currentPickingList[k].OrderItemID = BolOrderItems[o][n].orderItemId

\* C37: a fetch-orders request that fails (credentials missing, or the order
\* fetch reports failure) leaves currentOrders and currentPickingList as they
\* were.
C37_FailedFetchChangesNothing ==
  [][ (last'.op = "fetch" /\ last'.status # 200) =>
        /\ currentOrders' = currentOrders
        /\ currentPickingList' = currentPickingList ]_vars

\* C37 witness: a fetch failed while orders and picking items were held
C37_Witness ==
  /\ last.op = "fetch" /\ last.status = 500
  /\ currentOrders # <<>> /\ currentPickingList # <<>>

\* C35: when a pick request answers success with tracking number T, the entry
\* of its item in the current picking list is picked and has tracking number
\* T, whatever requests were served while the pick was suspended.
C35_AnsweredPickIsInList ==
  [][ \A p \in DOMAIN picking :
        (picking[p].pc = "saveData" /\ picking'[p].pc = "idle" /\ picking'[p].status = 200)
        => LET idx == FindItem(currentPickingList', picking[p].orderId, picking[p].itemId)
           IN idx # 0 =>
                /\ currentPickingList'[idx].picked
                /\ currentPickingList'[idx].trackingNumber = picking'[p].trackingNumber ]_vars

\* C39: every page request of fetchAllOrders carries the access token in
\* force; in particular the request sent again after a 401 carries the token
\* obtained by the refresh.
C39_RetryCarriesNewToken ==
  pagesPc = "request" => PageRequestToken = token
====
